---- MODULE Spec2Model ----
(***************************************************************************)
(* A model of the Claude conversation extractor: the real-time search      *)
(* screen (realtime_search.py), the smart-search composition, the basic    *)
(* and detailed extractors, the native-TUI bridge and the CLI dispatcher.  *)
(* Each component has its own group of variables and its own               *)
(* specification; the other groups stay parked at their initial value.     *)
(***************************************************************************)
EXTENDS Integers, Sequences, FiniteSets, TLC

(***************************************************************************)
(* Bounds of the model.                                                    *)
(***************************************************************************)
MaxQueryLen == 2
MaxKeys == 3
MaxTime == 4

\* RealTimeSearch.debounce_delay, 0.3 s, in ticks of 0.15 s.
debounce_delay == 2

\* TerminalDisplay.header_lines.
header_lines == 3

VARIABLES
  \* ---- realtime_search.py
  state,          \* RealTimeSearch.state, a SearchState
  results_cache,  \* RealTimeSearch.results_cache: query -> results
  stop_event,     \* RealTimeSearch.stop_event
  worker,         \* the thread running search_worker: pc, query, results
  ui,             \* the thread running run: pc, key, action, retval, the
                  \* terminal (raw, rows) and what was last drawn
  now,            \* time.time(), in ticks of 0.15 s
  hist,           \* history read by the properties only
  \* ---- realtime_search.py, create_smart_searcher
  sm,             \* one call of smart_search: its inputs and its result
  \* ---- extract_claude_logs.py and detailed_export.py
  ex,             \* one extraction of a session file: the file, the
                  \* position of the reader and the messages collected
  \* ---- claude_tui_integration.py
  br,             \* one call of a ClaudeTUIBridge method
  \* ---- extract_claude_logs.py, main and unified_main
  cli,            \* one run of the command line
  fs,             \* the files on disk: the session files and the exports
  \* ---- export_formats.py, conversation_stats.py, detailed_export.py
  call            \* one call of a library operation: its arguments, the
                  \* position in it and what it returns or raises

rtsVars == <<state, results_cache, stop_event, worker, ui, now, hist>>

vars == <<rtsVars, sm, ex, br, cli, fs, call>>

\* what the actions of one component leave alone
NotRTS == <<sm, ex, br, cli, fs, call>>
NotSmart == <<rtsVars, ex, br, cli, fs, call>>
NotExtract == <<rtsVars, sm, br, cli, fs, call>>
NotBridge == <<rtsVars, sm, ex, cli, fs, call>>
NotCLI == <<rtsVars, sm, ex, br, call>>
NotCall == <<rtsVars, sm, ex, br, cli>>

(***************************************************************************)
(* Strings are sequences of characters.                                    *)
(***************************************************************************)
Chars == {"a", "b"}

\* str.startswith
StartsWith(s, p) ==
  /\ Len(p) <= Len(s)
  /\ SubSeq(s, 1, Len(p)) = p

\* p in s, for strings
Contains(s, p) ==
  \E i \in 0..(Len(s) - Len(p)) : SubSeq(s, i + 1, i + Len(p)) = p

(***************************************************************************)
(* The search engine behind RealTimeSearch.searcher: the files whose text  *)
(* contains the query, in a fixed order.                                   *)
(***************************************************************************)
Corpus == << <<"a", "b">>, <<"b", "a">>, <<"a", "a">> >>

RECURSIVE SelectHits(_, _)
SelectHits(q, i) ==
  IF i > Len(Corpus) THEN <<>>
  ELSE (IF Contains(Corpus[i], q) THEN <<i>> ELSE <<>>) \o SelectHits(q, i + 1)

SearcherSearch(q) == SelectHits(q, 1)

(***************************************************************************)
(* A component that a specification does not run stays at its parked      *)
(* value.                                                                  *)
(***************************************************************************)
SmartParked == sm = [pc |-> "parked"]
ExtractParked == ex = [pc |-> "parked"]
BridgeParked == br = [pc |-> "parked"]
CLIParked == cli = [pc |-> "parked"] /\ fs = [pc |-> "parked"]
CallParked == call = [pc |-> "parked"]
RTSParked ==
  /\ state = <<>>
  /\ results_cache = <<>>
  /\ stop_event = FALSE
  /\ worker = <<>>
  /\ ui = <<>>
  /\ now = 0
  /\ hist = <<>>

(***************************************************************************)
(* RealTimeSearch                                                          *)
(***************************************************************************)
\* shutil.get_terminal_size: the heights the model draws from
TerminalRows == {10, 12, 15}

SpecialKeys == {"ESC", "ENTER", "UP", "DOWN", "LEFT", "RIGHT", "BACKSPACE"}
Keys == SpecialKeys \cup Chars

\* SearchState()
SearchState ==
  [query |-> <<>>, cursor_pos |-> 0, results |-> <<>>, selected_index |-> 0,
   last_update |-> 0, is_searching |-> FALSE, needs_redraw |-> TRUE,
   last_drawn_query |-> <<>>, last_drawn_results_count |-> -1]

\* the worker between two requests: the locals of _process_search_request
\* are gone
WorkerIdle == [pc |-> "loop", query |-> <<>>, results |-> <<>>, stroke |-> 0]

\* RealTimeSearch.__init__, before run
RTSInit ==
  /\ state = SearchState
  /\ results_cache = <<>>
  /\ stop_event = FALSE
  /\ worker = [WorkerIdle EXCEPT !.pc = "unstarted"]
  /\ \E r \in TerminalRows :
       ui = [pc |-> "init", key |-> "NONE", action |-> "NONE",
             retval |-> [kind |-> "pending", path |-> 0],
             key_time |-> 0, raw |-> FALSE, rows |-> r, drawn |-> <<>>]
  /\ now = 0
  /\ hist = [nkeys |-> 0, strokes |-> <<>>, calls |-> <<>>, entered |-> 0]

\* time.time() advances
Tick ==
  /\ now < MaxTime
  /\ now' = now + 1
  /\ UNCHANGED <<state, results_cache, stop_event, worker, ui, hist>>
  /\ UNCHANGED NotRTS

(***************************************************************************)
(* search_worker and _process_search_request, one action per lock section  *)
(* or unlocked access.                                                     *)
(***************************************************************************)
\* results_cache[q] = r
CachePut(cache, q, r) ==
  [k \in (DOMAIN cache) \cup {q} |-> IF k = q THEN r ELSE cache[k]]

\* while not self.stop_event.is_set(): time.sleep(0.05)
WorkerLoop ==
  /\ worker.pc = "loop"
  /\ worker' = [worker EXCEPT !.pc = IF stop_event THEN "cleanup" ELSE "request"]
  /\ UNCHANGED <<state, results_cache, stop_event, ui, now, hist>>
  /\ UNCHANGED NotRTS

\* the debounce test of _process_search_request
DebounceElapsed(t, last) == ~(t - last < debounce_delay)

\* with self.search_lock: the pending and debounce tests, the query snapshot
WorkerRequest ==
  /\ worker.pc = "request"
  /\ IF ~state.is_searching \/ ~DebounceElapsed(now, state.last_update)
     THEN /\ worker' = WorkerIdle
          /\ UNCHANGED state
     ELSE /\ worker' = [worker EXCEPT !.pc = "dispatch", !.query = state.query,
                                      !.stroke = Len(hist.strokes)]
          /\ state' = [state EXCEPT !.is_searching = FALSE]
  /\ UNCHANGED <<results_cache, stop_event, ui, now, hist>>
  /\ UNCHANGED NotRTS

\* if not query: with self.search_lock: results = []
WorkerEmptyQueryMutant ==
  /\ worker.pc = "dispatch"
  /\ worker.query = <<>>
  /\ worker' = [worker EXCEPT !.pc = "search"]
  /\ UNCHANGED <<state, results_cache, stop_event, ui, now, hist>>
  /\ UNCHANGED NotRTS
WorkerEmptyQuery ==
  /\ worker.pc = "dispatch"
  /\ worker.query = <<>>
  /\ state' = [state EXCEPT !.results = <<>>, !.needs_redraw = TRUE]
  /\ worker' = WorkerIdle
  /\ UNCHANGED <<results_cache, stop_event, ui, now, hist>>
  /\ UNCHANGED NotRTS

\* if query in self.results_cache, read without the lock
WorkerCacheCheck ==
  /\ worker.pc = "dispatch"
  /\ worker.query # <<>>
  /\ worker' = [worker EXCEPT !.pc = IF worker.query \in DOMAIN results_cache
                                     THEN "cache_read" ELSE "search"]
  /\ UNCHANGED <<state, results_cache, stop_event, ui, now, hist>>
  /\ UNCHANGED NotRTS

\* with self.search_lock: results = self.results_cache[query]; a KeyError
\* is caught nowhere and ends the thread
WorkerCacheRead ==
  /\ worker.pc = "cache_read"
  /\ IF worker.query \in DOMAIN results_cache
     THEN /\ state' = [state EXCEPT !.results = results_cache[worker.query],
                                    !.needs_redraw = TRUE]
          /\ worker' = WorkerIdle
     ELSE /\ worker' = [worker EXCEPT !.pc = "dead"]
          /\ UNCHANGED state
  /\ UNCHANGED <<results_cache, stop_event, ui, now, hist>>
  /\ UNCHANGED NotRTS

\* results = self.searcher.search(**search_kwargs), which returns or raises
WorkerSearch ==
  /\ worker.pc = "search"
  /\ \E raised \in BOOLEAN :
       worker' = [worker EXCEPT !.pc = IF raised THEN "error" ELSE "cache_store",
                                !.results = IF raised THEN <<>>
                                            ELSE SearcherSearch(worker.query)]
  /\ hist' = [hist EXCEPT !.calls = Append(@, worker.stroke)]
  /\ UNCHANGED <<state, results_cache, stop_event, ui, now>>
  /\ UNCHANGED NotRTS

\* self.results_cache[query] = results, written without the lock
WorkerCacheStore ==
  /\ worker.pc = "cache_store"
  /\ results_cache' = CachePut(results_cache, worker.query, worker.results)
  /\ worker' = [worker EXCEPT !.pc = "apply"]
  /\ UNCHANGED <<state, stop_event, ui, now, hist>>
  /\ UNCHANGED NotRTS

\* with self.search_lock: results, selected_index = 0, needs_redraw
WorkerApply ==
  /\ worker.pc = "apply"
  /\ state' = [state EXCEPT !.results = worker.results, !.selected_index = 0,
                            !.needs_redraw = TRUE]
  /\ worker' = WorkerIdle
  /\ UNCHANGED <<results_cache, stop_event, ui, now, hist>>
  /\ UNCHANGED NotRTS

\* except Exception: with self.search_lock: results = []
WorkerError ==
  /\ worker.pc = "error"
  /\ state' = [state EXCEPT !.results = <<>>, !.needs_redraw = TRUE]
  /\ worker' = WorkerIdle
  /\ UNCHANGED <<results_cache, stop_event, ui, now, hist>>
  /\ UNCHANGED NotRTS

\* after the loop: self.stop_event.clear()
WorkerCleanup ==
  /\ worker.pc = "cleanup"
  /\ stop_event' = FALSE
  /\ worker' = [worker EXCEPT !.pc = "exited"]
  /\ UNCHANGED <<state, results_cache, ui, now, hist>>
  /\ UNCHANGED NotRTS

\* Thread.is_alive()
WorkerAlive == worker.pc \notin {"unstarted", "dead", "exited"}

(***************************************************************************)
(* run and handle_input, the foreground thread.                            *)
(***************************************************************************)
NoneResult == [kind |-> "none", path |-> 0]

\* Leaving the with block of run (return, KeyboardInterrupt or another
\* exception) runs KeyboardHandler.__exit__, which restores the terminal,
\* before the finally clause: raw is reset by the action that leaves.
\* run, up to the loop: start the worker, clear, draw the header, enter raw
\* mode (KeyboardHandler.__enter__)
RunStart ==
  /\ ui.pc = "init"
  /\ worker' = WorkerIdle
  /\ state' = [state EXCEPT !.needs_redraw = TRUE]
  /\ ui' = [ui EXCEPT !.pc = "redraw_check", !.raw = TRUE]
  /\ UNCHANGED <<results_cache, stop_event, now, hist>>
  /\ UNCHANGED NotRTS

\* the condition under which the loop of run redraws
RedrawWanted(st) ==
  \/ st.needs_redraw
  \/ st.query # st.last_drawn_query
  \/ Len(st.results) # st.last_drawn_results_count

RedrawCheck ==
  /\ ui.pc = "redraw_check"
  /\ ui' = [ui EXCEPT !.pc = IF RedrawWanted(state) THEN "draw" ELSE "getkey"]
  /\ UNCHANGED <<state, results_cache, stop_event, worker, now, hist>>
  /\ UNCHANGED NotRTS

\* display.draw_results and display.draw_search_box
Draw ==
  /\ ui.pc = "draw"
  /\ ui' = [ui EXCEPT !.pc = "mark", !.drawn = state.results]
  /\ UNCHANGED <<state, results_cache, stop_event, worker, now, hist>>
  /\ UNCHANGED NotRTS

\* the tracking variables after a draw
MarkDrawn ==
  /\ ui.pc = "mark"
  /\ state' = [state EXCEPT !.last_drawn_query = state.query,
                            !.last_drawn_results_count = Len(state.results),
                            !.needs_redraw = FALSE]
  /\ ui' = [ui EXCEPT !.pc = "getkey"]
  /\ UNCHANGED <<results_cache, stop_event, worker, now, hist>>
  /\ UNCHANGED NotRTS

\* keyboard.get_key(timeout=0.1) returns None
GetKeyTimeout ==
  /\ ui.pc = "getkey"
  /\ ui' = [ui EXCEPT !.pc = "redraw_check", !.key = "NONE"]
  /\ UNCHANGED <<state, results_cache, stop_event, worker, now, hist>>
  /\ UNCHANGED NotRTS

\* keyboard.get_key returns a key
GetKey ==
  /\ ui.pc = "getkey"
  /\ hist.nkeys < MaxKeys
  /\ \E k \in Keys :
       /\ k \in Chars => Len(state.query) < MaxQueryLen
       /\ ui' = [ui EXCEPT !.pc = "handle", !.key = k, !.key_time = now]
  /\ hist' = [hist EXCEPT !.nkeys = @ + 1]
  /\ UNCHANGED <<state, results_cache, stop_event, worker, now>>
  /\ UNCHANGED NotRTS

\* keyboard.get_key reads Ctrl+C and raises KeyboardInterrupt
GetKeyInterrupt ==
  /\ ui.pc = "getkey"
  /\ ui' = [ui EXCEPT !.pc = "stop", !.retval = NoneResult, !.raw = FALSE]
  /\ UNCHANGED <<state, results_cache, stop_event, worker, now, hist>>
  /\ UNCHANGED NotRTS

HandleEsc ==
  /\ ui.pc = "handle"
  /\ ui.key = "ESC"
  /\ ui' = [ui EXCEPT !.pc = "handled", !.action = "exit"]
  /\ UNCHANGED <<state, results_cache, stop_event, worker, now, hist>>
  /\ UNCHANGED NotRTS

\* the test under which ENTER selects
CanSelect(st) ==
  /\ st.results # <<>>
  /\ 0 <= st.selected_index
  /\ st.selected_index < Len(st.results)

\* hist.entered keeps the result highlighted when ENTER was accepted
HandleEnter ==
  /\ ui.pc = "handle"
  /\ ui.key = "ENTER"
  /\ ui' = [ui EXCEPT !.pc = "handled",
                      !.action = IF CanSelect(state) THEN "select" ELSE "NONE"]
  /\ hist' = [hist EXCEPT !.entered =
                IF CanSelect(state) THEN state.results[state.selected_index + 1]
                ELSE @]
  /\ UNCHANGED <<state, results_cache, stop_event, worker, now>>
  /\ UNCHANGED NotRTS

Max(a, b) == IF a >= b THEN a ELSE b
Min(a, b) == IF a <= b THEN a ELSE b

\* max_visible of handle_input
MaxVisible(r) == (r - header_lines - 6) \div 3

HandleUp ==
  /\ ui.pc = "handle"
  /\ ui.key = "UP"
  /\ state' = IF state.results # <<>>
              THEN [state EXCEPT !.selected_index = Max(0, @ - 1)]
              ELSE state
  /\ ui' = [ui EXCEPT !.pc = "handled"]
  /\ UNCHANGED <<results_cache, stop_event, worker, now, hist>>
  /\ UNCHANGED NotRTS

HandleDown ==
  /\ ui.pc = "handle"
  /\ ui.key = "DOWN"
  /\ state' = IF state.results # <<>>
              THEN [state EXCEPT !.selected_index =
                      Min(Min(Len(state.results), MaxVisible(ui.rows)) - 1, @ + 1)]
              ELSE state
  /\ ui' = [ui EXCEPT !.pc = "handled"]
  /\ UNCHANGED <<results_cache, stop_event, worker, now, hist>>
  /\ UNCHANGED NotRTS

HandleLeft ==
  /\ ui.pc = "handle"
  /\ ui.key = "LEFT"
  /\ state' = [state EXCEPT !.cursor_pos = Max(0, @ - 1)]
  /\ ui' = [ui EXCEPT !.pc = "handled"]
  /\ UNCHANGED <<results_cache, stop_event, worker, now, hist>>
  /\ UNCHANGED NotRTS

HandleRight ==
  /\ ui.pc = "handle"
  /\ ui.key = "RIGHT"
  /\ state' = [state EXCEPT !.cursor_pos = Min(Len(state.query), @ + 1)]
  /\ ui' = [ui EXCEPT !.pc = "handled"]
  /\ UNCHANGED <<results_cache, stop_event, worker, now, hist>>
  /\ UNCHANGED NotRTS

\* query[:cursor_pos - 1] + query[cursor_pos:]
DeleteBefore(q, pos) == SubSeq(q, 1, pos - 1) \o SubSeq(q, pos + 1, Len(q))

\* query[:cursor_pos] + key + query[cursor_pos:]
InsertAt(q, pos, c) == SubSeq(q, 1, pos) \o <<c>> \o SubSeq(q, pos + 1, Len(q))

\* the query and cursor are written before trigger_search takes the lock
HandleBackspaceMutant ==
  /\ ui.pc = "handle"
  /\ ui.key = "BACKSPACE"
  /\ state' = [state EXCEPT
                 !.query = DeleteBefore(state.query, state.cursor_pos),
                 !.cursor_pos = @ - 1]
  /\ ui' = [ui EXCEPT !.pc = "trigger"]
  /\ hist' = [hist EXCEPT !.strokes = Append(@, ui.key_time)]
  /\ UNCHANGED <<results_cache, stop_event, worker, now>>
  /\ UNCHANGED NotRTS
HandleBackspace ==
  /\ ui.pc = "handle"
  /\ ui.key = "BACKSPACE"
  /\ IF state.cursor_pos > 0
     THEN /\ state' = [state EXCEPT
                         !.query = DeleteBefore(state.query, state.cursor_pos),
                         !.cursor_pos = @ - 1]
          /\ ui' = [ui EXCEPT !.pc = "trigger"]
          /\ hist' = [hist EXCEPT !.strokes =
                        Append(@, ui.key_time)]
     ELSE /\ ui' = [ui EXCEPT !.pc = "handled"]
          /\ UNCHANGED <<state, hist>>
  /\ UNCHANGED <<results_cache, stop_event, worker, now>>
  /\ UNCHANGED NotRTS

HandlePrintable ==
  /\ ui.pc = "handle"
  /\ ui.key \in Chars
  /\ state' = [state EXCEPT
                 !.query = InsertAt(state.query, state.cursor_pos, ui.key),
                 !.cursor_pos = @ + 1]
  /\ ui' = [ui EXCEPT !.pc = "trigger"]
  /\ hist' = [hist EXCEPT !.strokes =
                Append(@, ui.key_time)]
  /\ UNCHANGED <<results_cache, stop_event, worker, now>>
  /\ UNCHANGED NotRTS

\* the entries trigger_search leaves in the cache
CacheKeptMutant(cache, q) == {k \in DOMAIN cache : StartsWith(q, k)}
CacheKept(cache, q) == {k \in DOMAIN cache : StartsWith(k, q)}

\* trigger_search: one lock section
TriggerSearch ==
  /\ ui.pc = "trigger"
  /\ state' = [state EXCEPT !.last_update = now, !.is_searching = TRUE]
  /\ results_cache' = [k \in CacheKept(results_cache, state.query) |->
                         results_cache[k]]
  /\ ui' = [ui EXCEPT !.pc = "handled"]
  /\ UNCHANGED <<stop_event, worker, now, hist>>
  /\ UNCHANGED NotRTS

\* after handle_input: needs_redraw = True, then the action
AfterInput ==
  /\ ui.pc = "handled"
  /\ state' = [state EXCEPT !.needs_redraw = TRUE]
  /\ ui' = [ui EXCEPT
              !.pc = CASE ui.action = "exit" -> "stop"
                       [] ui.action = "select" -> "select"
                       [] OTHER -> "redraw_check",
              !.retval = IF ui.action = "exit" THEN NoneResult ELSE @,
              !.raw = IF ui.action = "exit" THEN FALSE ELSE @,
              !.key = "NONE", !.action = "NONE", !.key_time = 0]
  /\ UNCHANGED <<results_cache, stop_event, worker, now, hist>>
  /\ UNCHANGED NotRTS

\* selected_result = self.state.results[self.state.selected_index]; an
\* IndexError leaves run through the finally clause
SelectResult ==
  /\ ui.pc = "select"
  /\ ui' = [ui EXCEPT
              !.pc = "stop",
              !.raw = FALSE,
              !.retval =
                 IF /\ state.selected_index < Len(state.results)
                    /\ state.selected_index >= -Len(state.results)
                 THEN [kind |-> "path",
                       path |-> IF state.selected_index >= 0
                                THEN state.results[state.selected_index + 1]
                                ELSE state.results[Len(state.results)
                                                   + state.selected_index + 1]]
                 ELSE [kind |-> "IndexError", path |-> 0]]
  /\ UNCHANGED <<state, results_cache, stop_event, worker, now, hist>>
  /\ UNCHANGED NotRTS

\* stop: the event is set only if the thread is alive
Stop ==
  /\ ui.pc = "stop"
  /\ IF WorkerAlive
     THEN /\ stop_event' = TRUE
          /\ ui' = [ui EXCEPT !.pc = "join"]
     ELSE /\ ui' = [ui EXCEPT !.pc = "returned"]
          /\ UNCHANGED stop_event
  /\ UNCHANGED <<state, results_cache, worker, now, hist>>
  /\ UNCHANGED NotRTS

\* search_thread.join(timeout=0.5) returns, the thread ended or not; then
\* display.clear_screen, and run returns (or re-raises)
Join ==
  /\ ui.pc = "join"
  /\ ui' = [ui EXCEPT !.pc = "returned"]
  /\ UNCHANGED <<state, results_cache, stop_event, worker, now, hist>>
  /\ UNCHANGED NotRTS

RTSNext ==
  \/ Tick
  \/ WorkerLoop \/ WorkerRequest \/ WorkerEmptyQuery \/ WorkerCacheCheck
  \/ WorkerCacheRead \/ WorkerSearch \/ WorkerCacheStore \/ WorkerApply
  \/ WorkerError \/ WorkerCleanup
  \/ RunStart \/ RedrawCheck \/ Draw \/ MarkDrawn
  \/ GetKeyTimeout \/ GetKey \/ GetKeyInterrupt
  \/ HandleEsc \/ HandleEnter \/ HandleUp \/ HandleDown \/ HandleLeft
  \/ HandleRight \/ HandleBackspace \/ HandlePrintable
  \/ TriggerSearch \/ AfterInput \/ SelectResult
  \/ Stop \/ Join

InitRTS ==
  RTSInit /\ SmartParked /\ ExtractParked /\ BridgeParked /\ CLIParked /\ CallParked

SpecRTS == InitRTS /\ [][RTSNext]_vars

(***************************************************************************)
(* C1: the debounce.                                                       *)
(* hist.strokes holds the arrival time of every keystroke that changed the *)
(* query, hist.calls the keystroke whose query each engine call was made   *)
(* for.                                                                    *)
(***************************************************************************)
\* keystroke i was followed by another one within the debounce window
Superseded(i) ==
  /\ i < Len(hist.strokes)
  /\ hist.strokes[i + 1] - hist.strokes[i] < debounce_delay

\* keystrokes i..j belong to one burst
SameBurst(i, j) == \A k \in i..(j - 1) : Superseded(k)

\* C1: in a burst of query-changing keystrokes, each arriving less than the
\* debounce window after the previous one, the worker calls the engine at
\* most once, for the final query of the burst, and never for an
\* intermediate query.
C1_OneSearchPerBurst ==
  \A m \in DOMAIN hist.calls :
    /\ ~Superseded(hist.calls[m])
    /\ \A n \in DOMAIN hist.calls :
         m < n => ~SameBurst(Min(hist.calls[m], hist.calls[n]),
                             Max(hist.calls[m], hist.calls[n]))

(***************************************************************************)
(* create_smart_searcher: smart_search over the four underlying searches.  *)
(* A result carries file_path, timestamp and relevance_score.  A timestamp *)
(* is 0 for None, below AwareFrom a naive datetime, from AwareFrom on an   *)
(* offset-aware datetime; comparing a naive with an aware datetime raises  *)
(* TypeError.                                                              *)
(***************************************************************************)
MaxPaths == 2
MaxHits == 2
MaxExtraHits == 1
AwareFrom == 10

SeqsUpTo(S, n) == UNION {[1..k -> S] : k \in 0..n}

Stamps == {0, 1, AwareFrom}

SearchResults ==
  {r \in [file_path : 1..MaxPaths, timestamp : Stamps, relevance_score : {0, 1}] :
     r.relevance_score = (r.file_path + r.timestamp) % 2}

\* an underlying search that raised, or returned hits
Raised == [raised |-> TRUE, hits |-> <<>>]
Returned(h) == [raised |-> FALSE, hits |-> h]

SmartInit ==
  \E looks_regex, has_nlp \in BOOLEAN :
  \E exa, smt \in SeqsUpTo(SearchResults, MaxHits) :
  \E rx, sem \in {Raised} \cup {Returned(h) : h \in SeqsUpTo(SearchResults, MaxExtraHits)} :
  \E mr \in {MaxHits, 20} :
    /\ ~looks_regex => rx = Returned(<<>>)
    /\ ~has_nlp => sem = Returned(<<>>)
    /\ sm = [pc |-> "call", looks_regex |-> looks_regex, has_nlp |-> has_nlp,
             exact |-> exa, regex |-> rx, smart |-> smt, semantic |-> sem,
             max_results |-> mr, sorted_by |-> "none", out |-> <<>>]

PathsOf(rs) == {rs[i].file_path : i \in DOMAIN rs}

\* existing_paths = {r.file_path for r in results}; for r in more:
\*   if r.file_path not in existing_paths: results.append(r)
AddNewMutant(rs, more) == rs \o more
AddNew(rs, more) ==
  LET existing_paths == PathsOf(rs)
      IsNew(r) == r.file_path \notin existing_paths
  IN rs \o SelectSeq(more, IsNew)

\* steps 1 to 4 of smart_search: the union before sorting
Union(c) ==
  LET r1 == c.exact
      r2 == IF c.looks_regex /\ ~c.regex.raised THEN AddNew(r1, c.regex.hits) ELSE r1
      r3 == AddNew(r2, c.smart)
      r4 == IF c.has_nlp /\ ~c.semantic.raised THEN AddNew(r3, c.semantic.hits) ELSE r3
  IN r4

\* key=lambda x: x.timestamp if x.timestamp else datetime.min
TimestampKey(r) == r.timestamp
ScoreKey(r) == r.relevance_score

\* the timestamp keys compare without TypeError
Comparable(rs) ==
  \A i, j \in DOMAIN rs :
    (TimestampKey(rs[i]) >= AwareFrom) = (TimestampKey(rs[j]) >= AwareFrom)

\* list.sort(key=..., reverse=True): stable, largest key first
SortKey(r, by) == IF by = "timestamp" THEN TimestampKey(r) ELSE ScoreKey(r)

RECURSIVE InsertDesc(_, _, _)
InsertDesc(sorted, r, by) ==
  IF sorted = <<>> THEN <<r>>
  ELSE IF SortKey(Head(sorted), by) >= SortKey(r, by)
       THEN <<Head(sorted)>> \o InsertDesc(Tail(sorted), r, by)
       ELSE <<r>> \o sorted

RECURSIVE SortDesc(_, _)
SortDesc(rs, by) ==
  IF rs = <<>> THEN <<>>
  ELSE InsertDesc(SortDesc(SubSeq(rs, 1, Len(rs) - 1), by), rs[Len(rs)], by)

\* results[:max_results]
Truncate(rs, n) == SubSeq(rs, 1, Min(Len(rs), n))

\* the orders a failed list.sort may leave the list in
Shuffles(rs) ==
  {[i \in DOMAIN rs |-> rs[f[i]]] :
     f \in {g \in [DOMAIN rs -> DOMAIN rs] : \A i, j \in DOMAIN rs : g[i] = g[j] => i = j}}

\* smart_search when the sort by timestamp succeeds
SmartSearchByTimestamp ==
  /\ sm.pc = "call"
  /\ Comparable(Union(sm))
  /\ sm' = [sm EXCEPT !.pc = "done", !.sorted_by = "timestamp",
                      !.out = Truncate(SortDesc(Union(sm), "timestamp"),
                                       sm.max_results)]
  /\ UNCHANGED NotSmart

\* smart_search when the sort by timestamp raises TypeError: the list is
\* left in some order and is sorted again by relevance_score
SmartSearchByScore ==
  /\ sm.pc = "call"
  /\ ~Comparable(Union(sm))
  /\ \E left \in Shuffles(Union(sm)) :
       sm' = [sm EXCEPT !.pc = "done", !.sorted_by = "relevance_score",
                        !.out = Truncate(SortDesc(left, "relevance_score"), sm.max_results)]
  /\ UNCHANGED NotSmart

SmartNext == SmartSearchByTimestamp \/ SmartSearchByScore

InitSmart ==
  SmartInit /\ RTSParked /\ ExtractParked /\ BridgeParked /\ CLIParked /\ CallParked

SpecSmart == InitSmart /\ [][SmartNext]_vars

(***************************************************************************)
(* C2: the smart-composed result list.                                     *)
(***************************************************************************)
DistinctPaths(rs) ==
  \A i, j \in DOMAIN rs : rs[i].file_path = rs[j].file_path => i = j

\* the files matched by both exact and smart, and by smart only
InExactAndSmart(p) == p \in PathsOf(sm.exact) /\ p \in PathsOf(sm.smart)
SmartOnly(p) ==
  /\ p \in PathsOf(sm.smart)
  /\ p \notin PathsOf(sm.exact)
  /\ ~(sm.looks_regex /\ p \in PathsOf(sm.regex.hits))
  /\ ~(sm.has_nlp /\ p \in PathsOf(sm.semantic.hits))

\* no underlying search reports a file twice
InputsDistinct ==
  /\ DistinctPaths(sm.exact)
  /\ DistinctPaths(sm.regex.hits)
  /\ DistinctPaths(sm.smart)
  /\ DistinctPaths(sm.semantic.hits)

MaxLines == 3

Whitespace == {" ", "\n"}

JAbsent == [is |-> "absent"]
JNull == [is |-> "null"]
JStr(t) == [is |-> "str", str |-> t]
JList(items) == [is |-> "list", items |-> items]
\* a content block {"type": type, "text": text}
Block(type, text) == [is |-> "dict", type |-> type, text |-> text]
\* {"role": role, "content": content}
Message(role, content) == [is |-> "dict", role |-> role, content |-> content]
\* {"type": type, "message": message}, without a "timestamp"; badbytes: the
\* line holds bytes that are not UTF-8, and the entry is what
\* errors="replace" decodes it to
Entry(type, message, badbytes) ==
  [json |-> "object", type |-> type, message |-> message,
   timestamp |-> JAbsent, badbytes |-> badbytes]
\* the entry with "timestamp": ts
Stamped(entry, ts) == [entry EXCEPT !.timestamp = ts]
\* a line that is blank, is not JSON, or is JSON but not an object
OtherLine(json, badbytes) ==
  [json |-> json, type |-> "absent", message |-> JAbsent,
   timestamp |-> JAbsent, badbytes |-> badbytes]

\* str(x) for the values that are not strings: None, and the repr of a
\* list or a dict, which is never empty
PyStr(v) ==
  CASE v.is = "str" -> v.str
    [] v.is = "null" -> <<"N", "o", "n", "e">>
    [] v.is = "absent" -> <<>>
    [] v.is = "list" -> <<"[", "]">>
    [] OTHER -> <<"{", "}">>

\* bool(x)
Truthy(v) ==
  CASE v.is = "str" -> v.str # <<>>
    [] v.is = "list" -> v.items # <<>>
    [] v.is = "dict" -> TRUE
    [] OTHER -> FALSE

RECURSIVE LStrip(_)
LStrip(s) ==
  IF s = <<>> THEN <<>>
  ELSE IF Head(s) \in Whitespace THEN LStrip(Tail(s)) ELSE s

RECURSIVE RStrip(_)
RStrip(s) ==
  IF s = <<>> THEN <<>>
  ELSE IF s[Len(s)] \in Whitespace THEN RStrip(SubSeq(s, 1, Len(s) - 1)) ELSE s

\* str.strip
Strip(s) == RStrip(LStrip(s))

\* "\n".join(parts), parts a sequence of strings
RECURSIVE JoinLines(_)
JoinLines(parts) ==
  IF parts = <<>> THEN <<>>
  ELSE IF Len(parts) = 1 THEN parts[1]
  ELSE parts[1] \o <<"\n">> \o JoinLines(Tail(parts))

\* str.join raises TypeError on a part that is not a string
AllStr(parts) == \A i \in 1..Len(parts) : parts[i].is = "str"
StrsOf(parts) == [i \in 1..Len(parts) |-> parts[i].str]
JoinOrRaise(parts) ==
  IF AllStr(parts) THEN [raised |-> FALSE, text |-> JoinLines(StrsOf(parts))]
  ELSE [raised |-> TRUE, text |-> <<>>]

\* dict.get(key, default)
Get(v, default) == IF v.is = "absent" THEN default ELSE v

(***************************************************************************)
(* ClaudeConversationExtractor.extract_conversation                        *)
(***************************************************************************)
RECURSIVE TextParts(_)
TextParts(items) ==
  IF items = <<>> THEN <<>>
  ELSE (IF Head(items).is = "dict" /\ Head(items).type = "text"
        THEN <<Get(Head(items).text, JStr(<<>>))>> ELSE <<>>)
       \o TextParts(Tail(items))

\* ClaudeConversationExtractor._extract_text_content
ExtractTextContent(content) ==
  CASE content.is = "str" -> [raised |-> FALSE, text |-> content.str]
    [] content.is = "list" -> JoinOrRaise(TextParts(content.items))
    [] OTHER -> [raised |-> FALSE, text |-> PyStr(content)]

\* msg.get("content", "") for a user entry, msg.get("content", []) for an
\* assistant entry
DefaultContent(type) == IF type = "user" THEN JStr(<<>>) ELSE JList(<<>>)

\* `if text and text.strip()`
KeepsTextMutant(text) == text # <<>>
KeepsText(text) == text # <<>> /\ Strip(text) # <<>>

\* the body of the loop for one line that was read: the messages it appends.
\* A line that is not JSON raises JSONDecodeError, a JSON value that is not
\* an object raises on .get, a text block whose text is not a string raises
\* in join: each is skipped by `continue`.
BasicEntryMessagesMutant(line) ==
  IF line.json = "object" /\ line.type = "user" /\ line.message.is = "dict"
  THEN << [role |-> "user",
           content |-> ExtractTextContent(Get(line.message.content, JStr(<<>>))).text,
           timestamp |-> Get(line.timestamp, JStr(<<>>))] >>
  ELSE <<>>
BasicEntryMessages(line) ==
  IF line.json # "object" THEN <<>>
  ELSE IF /\ line.type \in {"user", "assistant"}
          /\ line.message.is = "dict"
          /\ line.message.role = line.type
       THEN LET content == Get(line.message.content, DefaultContent(line.type))
                t == ExtractTextContent(content)
            IN IF ~t.raised /\ KeepsText(t.text)
               THEN << [role |-> line.type, content |-> t.text,
                        timestamp |-> Get(line.timestamp, JStr(<<>>))] >>
               ELSE <<>>
       ELSE <<>>

(***************************************************************************)
(* DetailedTranscriptExtractor.extract_detailed_conversation               *)
(* A detailed message keeps its type, its text ("content", or "text" for   *)
(* tool calls) and the number of its tool calls.                           *)
(***************************************************************************)
DetailedMessage(type, text, tools) ==
  [type |-> type, content |-> text, tools |-> tools]

RECURSIVE DetailedTextParts(_)
DetailedTextParts(items) ==
  IF items = <<>> THEN <<>>
  ELSE (CASE Head(items).is = "dict" /\ Head(items).type = "text" ->
               <<Get(Head(items).text, JStr(<<>>))>>
          [] Head(items).is = "str" -> <<Head(items)>>
          [] OTHER -> <<>>)
       \o DetailedTextParts(Tail(items))

\* DetailedTranscriptExtractor._extract_text_content
DetailedExtractTextContent(content) ==
  CASE content.is = "str" -> [raised |-> FALSE, text |-> content.str]
    [] content.is = "list" -> JoinOrRaise(DetailedTextParts(content.items))
    [] OTHER -> [raised |-> FALSE, text |-> PyStr(content)]

\* a processed entry: the message built, or the exception raised
Built(msg) == [raised |-> FALSE, msg |-> <<msg>>]
Nothing == [raised |-> FALSE, msg |-> <<>>]
Raises == [raised |-> TRUE, msg |-> <<>>]

\* the message of an entry whose "message" is not a dict
NonDictMessage(type, message_data) ==
  IF message_data.is = "str"
  THEN Built(DetailedMessage(type, message_data.str, 0))
  ELSE Built(DetailedMessage(type,
         IF Truthy(message_data) THEN PyStr(message_data) ELSE <<>>, 0))

\* the loop of _process_user_entry over a list content: a string item is
\* passed over, the first tool_result block returns, a text block replaces
\* content.  The "content" of a tool_result block is kept in its text field.
RECURSIVE UserLoop(_, _)
UserLoop(items, content) ==
  IF items = <<>>
  THEN LET t == DetailedExtractTextContent(content)
       IN IF t.raised THEN Raises ELSE Built(DetailedMessage("user", t.text, 0))
  ELSE LET item == Head(items) IN
       CASE item.is = "str" -> UserLoop(Tail(items), content)
         [] item.is = "dict" /\ item.type = "tool_result" ->
              Built(DetailedMessage("tool_result",
                      PyStr(Get(item.text, JStr(<<>>))), 0))
         [] item.is = "dict" /\ item.type = "text" ->
              UserLoop(Tail(items), Get(item.text, JStr(<<>>)))
         [] OTHER -> UserLoop(Tail(items), content)

\* DetailedTranscriptExtractor._process_user_entry
ProcessUserEntry(entry) ==
  IF entry.message.is # "dict" THEN NonDictMessage("user", entry.message)
  ELSE LET content == Get(entry.message.content, JStr(<<>>))
       IN UserLoop(IF content.is = "list" THEN content.items ELSE <<>>, content)

\* the loop of _process_assistant_entry: the tool calls counted and the
\* text accumulated; `text_content += x` raises when x is not a string
RECURSIVE AssistantLoop(_, _, _)
AssistantLoop(items, tools, text) ==
  IF items = <<>> THEN [raised |-> FALSE, tools |-> tools, text |-> text]
  ELSE LET item == Head(items) IN
       CASE item.is = "dict" /\ item.type = "tool_use" ->
              AssistantLoop(Tail(items), tools + 1, text)
         [] item.is = "dict" /\ item.type = "text" ->
              LET x == Get(item.text, JStr(<<>>))
              IN IF x.is = "str"
                 THEN AssistantLoop(Tail(items), tools, text \o x.str)
                 ELSE [raised |-> TRUE, tools |-> tools, text |-> text]
         [] item.is = "str" -> AssistantLoop(Tail(items), tools, text \o item.str)
         [] OTHER -> AssistantLoop(Tail(items), tools, text)

\* DetailedTranscriptExtractor._process_assistant_entry
ProcessAssistantEntry(entry) ==
  IF entry.message.is # "dict" THEN NonDictMessage("assistant", entry.message)
  ELSE LET content == Get(entry.message.content, JStr(<<>>))
           r == CASE content.is = "list" -> AssistantLoop(content.items, 0, <<>>)
                  [] content.is = "str" ->
                       [raised |-> FALSE, tools |-> 0, text |-> content.str]
                  [] OTHER -> [raised |-> FALSE, tools |-> 0, text |-> <<>>]
           t == DetailedExtractTextContent(content)
       IN IF r.raised THEN Raises
          ELSE IF r.tools > 0
          THEN Built(DetailedMessage("tool_calls", r.text, r.tools))
          ELSE IF r.text # <<>>
          THEN Built(DetailedMessage("assistant", r.text, 0))
          ELSE IF t.raised THEN Raises
          ELSE Built(DetailedMessage("assistant", t.text, 0))

\* DetailedTranscriptExtractor._process_system_entry: str() of the message,
\* or of the whole entry when there is none
ProcessSystemEntry(entry) ==
  Built(DetailedMessage("system",
          PyStr(Get(entry.message, [is |-> "dict"])), 0))

\* DetailedTranscriptExtractor._process_entry
ProcessEntry(entry, include_system_messages) ==
  CASE entry.type = "absent" -> Nothing
    [] entry.type = "user" -> ProcessUserEntry(entry)
    [] entry.type = "assistant" -> ProcessAssistantEntry(entry)
    [] include_system_messages /\ entry.type \in {"system", "internal"} ->
         ProcessSystemEntry(entry)
    [] OTHER -> Nothing

\* the body of the loop for one line that is not blank: the messages it
\* appends.  Invalid JSON and an entry whose processing raises are reported
\* and passed over; `if message` holds of every message built.
DetailedEntryMessages(line, include_system_messages) ==
  IF line.json # "object" THEN <<>>
  ELSE ProcessEntry(line, include_system_messages).msg

(***************************************************************************)
(* One extraction of one session file.                                     *)
(***************************************************************************)
X == <<"x">>
Blank == <<" ">>

\* the lines the files of the model are made of
FileLines ==
  { OtherLine("blank", FALSE),
    OtherLine("invalid", FALSE),
    OtherLine("invalid", TRUE),
    OtherLine("value", FALSE),
    Entry("user", Message("user", JStr(X)), FALSE),
    Entry("user", Message("user", JStr(X)), TRUE),
    Entry("user", Message("user", JStr(Blank)), FALSE),
    Entry("user", Message("user", JStr(<<>>)), FALSE),
    Entry("user", Message("user", JList(<<Block("text", JStr(X)), Block("text", JStr(X))>>)), FALSE),
    Entry("user", Message("assistant", JStr(X)), FALSE),
    Entry("user", JStr(<<>>), FALSE),
    Entry("assistant", Message("assistant", JList(<<Block("text", JStr(X))>>)), FALSE),
    Entry("assistant", Message("assistant", JList(<<Block("text", JStr(<<>>)), Block("text", JStr(<<>>))>>)), FALSE),
    Entry("assistant", Message("assistant", JList(<<Block("tool_use", JAbsent)>>)), FALSE),
    Entry("assistant", Message("assistant", JList(<<Block("text", JNull)>>)), FALSE),
    Entry("assistant", Message("assistant", JNull), FALSE),
    Entry("system", JStr(X), FALSE) }

Files == SeqsUpTo(FileLines, MaxLines)

ExtractInit ==
  \E mode \in {"basic", "detailed"}, file \in Files, inc \in BOOLEAN :
    /\ mode = "basic" => inc
    /\ ex = [pc |-> "reading", mode |-> mode, include_system_messages |-> inc,
             file |-> file, i |-> 1, messages |-> <<>>, error |-> FALSE]

\* `for line in f` hands out the next line; extract_conversation opens the
\* file with strict UTF-8 decoding, so the line has no malformed bytes
BasicReadLine ==
  /\ ex.pc = "reading" /\ ex.mode = "basic"
  /\ ex.i <= Len(ex.file)
  /\ ~ex.file[ex.i].badbytes
  /\ ex' = [ex EXCEPT !.messages = @ \o BasicEntryMessages(ex.file[ex.i]),
                      !.i = @ + 1]
  /\ UNCHANGED NotExtract

\* `for line in f` raises UnicodeDecodeError: the reader decodes the file a
\* chunk at a time, and the chunk it decodes to hand out line i reaches
\* malformed bytes, in this line or in a later line of the same chunk.  The
\* outer handler reports the error and the messages so far are returned.
BasicDecodeError ==
  /\ ex.pc = "reading" /\ ex.mode = "basic"
  /\ \E j \in ex.i..Len(ex.file) : ex.file[j].badbytes
  /\ ex' = [ex EXCEPT !.pc = "returned", !.error = TRUE]
  /\ UNCHANGED NotExtract

BasicReturn ==
  /\ ex.pc = "reading" /\ ex.mode = "basic"
  /\ ex.i > Len(ex.file)
  /\ ex' = [ex EXCEPT !.pc = "returned"]
  /\ UNCHANGED NotExtract

\* extract_detailed_conversation opens the file with errors="replace": every
\* line is handed out; a blank line is passed over
DetailedReadLine ==
  /\ ex.pc = "reading" /\ ex.mode = "detailed"
  /\ ex.i <= Len(ex.file)
  /\ ex' = [ex EXCEPT
       !.messages = IF ex.file[ex.i].json = "blank" THEN @
                    ELSE @ \o DetailedEntryMessages(ex.file[ex.i],
                                ex.include_system_messages),
       !.i = @ + 1]
  /\ UNCHANGED NotExtract

DetailedReturn ==
  /\ ex.pc = "reading" /\ ex.mode = "detailed"
  /\ ex.i > Len(ex.file)
  /\ ex' = [ex EXCEPT !.pc = "returned"]
  /\ UNCHANGED NotExtract

ExtractNext ==
  \/ BasicReadLine
  \/ BasicDecodeError
  \/ BasicReturn
  \/ DetailedReadLine
  \/ DetailedReturn

InitExtract ==
  ExtractInit /\ RTSParked /\ SmartParked /\ BridgeParked /\ CLIParked /\ CallParked

SpecExtract == InitExtract /\ [][ExtractNext]_vars

(***************************************************************************)
(* Properties of the extractors.                                           *)
(***************************************************************************)
\* a user or assistant entry whose message.role is its type and whose
\* content is a string or a list of text blocks
WellFormedEntry(line) ==
  /\ line.json = "object" /\ ~line.badbytes
  /\ line.type \in {"user", "assistant"}
  /\ line.message.is = "dict"
  /\ line.message.role = line.type
  /\ \/ line.message.content.is = "str"
     \/ /\ line.message.content.is = "list"
        /\ \A k \in DOMAIN line.message.content.items :
             LET item == line.message.content.items[k]
             IN item.is = "dict" /\ item.type = "text" /\ item.text.is = "str"

\* the text of a well-formed entry: the string, or the text blocks joined
\* by newlines
RecoveredText(line) == ExtractTextContent(line.message.content).text

BasicReturned == ex.pc = "returned" /\ ex.mode = "basic"

EntriesAsMessages(file) ==
  [i \in 1..Len(file) |->
     [role |-> file[i].type, content |-> RecoveredText(file[i]),
      timestamp |-> Get(file[i].timestamp, JStr(<<>>))]]

\* C3, as stated: when every line of the file is a well-formed user or
\* assistant entry with non-empty text, extract_conversation returns one
\* message per line, in file order, with the role and the text of the line.
C3_OneMessagePerEntry ==
  ( /\ BasicReturned
    /\ \A i \in DOMAIN ex.file :
         WellFormedEntry(ex.file[i]) /\ RecoveredText(ex.file[i]) # <<>> )
  => ex.messages = EntriesAsMessages(ex.file)

\* C3, amended: when every line of the file is a well-formed user or
\* assistant entry whose text has a character that is not whitespace,
\* extract_conversation returns one message per line, in file order, with
\* the role and the text of the line.
C3_OneMessagePerNonBlankEntry ==
  ( /\ BasicReturned
    /\ \A i \in DOMAIN ex.file :
         WellFormedEntry(ex.file[i]) /\ Strip(RecoveredText(ex.file[i])) # <<>> )
  => ex.messages = EntriesAsMessages(ex.file)

\* a file of at least two well-formed entries with text, a user entry and an
\* assistant entry among them, has been extracted
C3_Witness ==
  /\ BasicReturned
  /\ Len(ex.file) >= 2
  /\ \A i \in DOMAIN ex.file :
       WellFormedEntry(ex.file[i]) /\ Strip(RecoveredText(ex.file[i])) # <<>>
  /\ \E i, j \in DOMAIN ex.file :
       /\ ex.file[i].type = "user" /\ ex.file[j].type = "assistant"
       /\ ex.file[i].message.content.is = "list"
  /\ Len(ex.messages) = Len(ex.file)

\* C4, as stated: no message of the basic or of the detailed extraction has
\* a text that is empty or only whitespace.
C4_NoBlankMessage ==
  ex.pc \in {"reading", "returned"} =>
    \A k \in DOMAIN ex.messages : Strip(ex.messages[k].content) # <<>>

\* C4, amended: no message of the basic extraction has a text that is empty
\* or only whitespace.
C4_NoBlankBasicMessage ==
  (ex.pc \in {"reading", "returned"} /\ ex.mode = "basic") =>
    \A k \in DOMAIN ex.messages : Strip(ex.messages[k].content) # <<>>

\* the basic extraction has read an entry whose text is only whitespace and
\* has kept another entry
C4_Witness ==
  /\ BasicReturned
  /\ ex.messages # <<>>
  /\ \E i \in DOMAIN ex.file :
       /\ WellFormedEntry(ex.file[i])
       /\ RecoveredText(ex.file[i]) # <<>>
       /\ Strip(RecoveredText(ex.file[i])) = <<>>
       /\ i < ex.i

\* a line that is not JSON, is not an object, has malformed bytes, or whose
\* processing raises
Malformed(line) ==
  \/ line.json # "object"
  \/ line.badbytes
  \/ /\ line.type \in {"user", "assistant"}
     /\ line.message.is = "dict"
     /\ line.message.role = line.type
     /\ ExtractTextContent(Get(line.message.content, DefaultContent(line.type))).raised

NotMalformed(line) == ~Malformed(line)

\* what extract_conversation returns for a file without malformed lines
RECURSIVE AllMessages(_)
AllMessages(file) ==
  IF file = <<>> THEN <<>>
  ELSE BasicEntryMessages(Head(file)) \o AllMessages(Tail(file))

\* C5: extract_conversation returns for a file what it returns for the same
\* file with the malformed lines removed.
C5_MalformedLinesDropped ==
  BasicReturned => ex.messages = AllMessages(SelectSeq(ex.file, NotMalformed))

(***************************************************************************)
(* ClaudeTUIIntegration: the bridge to the accelerated implementation.     *)
(***************************************************************************)
\* The module search_conversations is not among the sources; it is taken to
\* define what its importers ask of it.
SearchConversationsNames == {"ConversationSearcher", "search_conversations_content"}

\* the names a module of the repository defines at its top level
ModuleNames ==
  [ export_formats |-> {"HTML_STYLE", "ExportFormatter", "MarkdownExporter",
                        "JSONExporter", "HTMLExporter", "ExportManager"},
    conversation_stats |-> {"AVERAGE_CHARS_PER_TOKEN", "WORDS_PER_MINUTE_READING",
                            "ConversationStats", "AggregateStats",
                            "ConversationAnalyzer"},
    realtime_search |-> {"SearchState", "KeyboardHandler", "TerminalDisplay",
                         "RealTimeSearch", "create_smart_searcher"},
    interactive_ui |-> {"InteractiveUI", "main"},
    search_conversations |-> SearchConversationsNames ]

\* `from module import name` does not raise ImportError
CanImport(module, name) == name \in ModuleNames[module]

\* how a call into the accelerated implementation, or into a built-in one,
\* ends: it returns, the user interrupts it (KeyboardInterrupt), or it
\* raises an Exception
Outcomes == {"ok", "interrupt", "error"}

BridgeOps == {"launch", "search", "export", "get_stats"}

BridgeInit ==
  \E op \in BridgeOps, ra, pr, fp \in BOOLEAN, ro, bo \in Outcomes :
    /\ op # "launch" => ~fp
    /\ br = [pc |-> "call", op |-> op, rust_available |-> ra, prefer_rust |-> pr,
             force_python |-> fp, rust |-> ro, builtin |-> bo,
             rust_invoked |-> FALSE, builtin_invoked |-> FALSE,
             result |-> "none", exception |-> "none"]

BridgeReturn(result) == [br EXCEPT !.pc = "returned", !.result = result]
BridgeRaise(exception) == [br EXCEPT !.pc = "raised", !.exception = exception]

\* the condition of launch
UseRustTuiMutant(force_python, rust_available, prefer_rust) ==
  rust_available /\ prefer_rust
UseRustTui(force_python, rust_available, prefer_rust) ==
  ~force_python /\ rust_available /\ prefer_rust

\* ClaudeTUIIntegration.launch
Launch ==
  /\ br.pc = "call" /\ br.op = "launch"
  /\ br' = [br EXCEPT !.pc =
       IF UseRustTui(br.force_python, br.rust_available, br.prefer_rust)
       THEN "rust" ELSE "python"]
  /\ UNCHANGED NotBridge

\* ClaudeTUIIntegration._launch_rust_tui
LaunchRustTui ==
  /\ br.pc = "rust" /\ br.op = "launch"
  /\ br' = [ (CASE br.rust = "ok" -> BridgeReturn("0")
                [] br.rust = "interrupt" -> BridgeReturn("0")
                [] OTHER -> [br EXCEPT !.pc = "python"])
             EXCEPT !.rust_invoked = TRUE ]
  /\ UNCHANGED NotBridge

\* ClaudeTUIIntegration._launch_python_cli
LaunchPythonCli ==
  /\ br.pc = "python" /\ br.op = "launch"
  /\ br' = [ (CASE br.builtin = "ok" -> BridgeReturn("0")
                [] br.builtin = "interrupt" -> BridgeReturn("0")
                [] OTHER -> BridgeReturn("1"))
             EXCEPT !.builtin_invoked = TRUE ]
  /\ UNCHANGED NotBridge

\* the first half of search, export and get_stats: `if self.rust_available:
\* try: ... except Exception`.  KeyboardInterrupt is not an Exception.
Accelerated(result) ==
  IF ~br.rust_available THEN [br EXCEPT !.pc = "fallback"]
  ELSE [ (CASE br.rust = "ok" -> BridgeReturn(result)
            [] br.rust = "interrupt" -> BridgeRaise("KeyboardInterrupt")
            [] OTHER -> [br EXCEPT !.pc = "fallback"])
         EXCEPT !.rust_invoked = TRUE ]

\* ClaudeTUIIntegration.search, lines 95-109
Search ==
  /\ br.pc = "call" /\ br.op = "search"
  /\ br' = Accelerated("rust results")
  /\ UNCHANGED NotBridge

\* ClaudeTUIIntegration.search, lines 112-114: no handler around the import
\* or the call
SearchFallback ==
  /\ br.pc = "fallback" /\ br.op = "search"
  /\ br' = IF ~CanImport("search_conversations", "search_conversations_content")
           THEN BridgeRaise("ImportError")
           ELSE [ (CASE br.builtin = "ok" -> BridgeReturn("builtin results")
                     [] br.builtin = "interrupt" -> BridgeRaise("KeyboardInterrupt")
                     [] OTHER -> BridgeRaise("Exception"))
                  EXCEPT !.builtin_invoked = TRUE ]
  /\ UNCHANGED NotBridge

\* ClaudeTUIIntegration.export, lines 133-142
Export ==
  /\ br.pc = "call" /\ br.op = "export"
  /\ br' = Accelerated("True")
  /\ UNCHANGED NotBridge

\* ClaudeTUIIntegration.export, lines 145-152: the import is outside the try
ExportFallback ==
  /\ br.pc = "fallback" /\ br.op = "export"
  /\ br' = IF ~CanImport("export_formats", "export_to_format")
           THEN BridgeRaise("ImportError")
           ELSE [ (CASE br.builtin = "ok" -> BridgeReturn("True")
                     [] br.builtin = "interrupt" -> BridgeRaise("KeyboardInterrupt")
                     [] OTHER -> BridgeReturn("False"))
                  EXCEPT !.builtin_invoked = TRUE ]
  /\ UNCHANGED NotBridge

\* ClaudeTUIIntegration.get_stats, lines 161-170
GetStats ==
  /\ br.pc = "call" /\ br.op = "get_stats"
  /\ br' = Accelerated("rust stats")
  /\ UNCHANGED NotBridge

\* ClaudeTUIIntegration.get_stats, lines 173-174
GetStatsFallback ==
  /\ br.pc = "fallback" /\ br.op = "get_stats"
  /\ br' = IF ~CanImport("conversation_stats", "calculate_stats")
           THEN BridgeRaise("ImportError")
           ELSE [ (CASE br.builtin = "ok" -> BridgeReturn("builtin stats")
                     [] br.builtin = "interrupt" -> BridgeRaise("KeyboardInterrupt")
                     [] OTHER -> BridgeRaise("Exception"))
                  EXCEPT !.builtin_invoked = TRUE ]
  /\ UNCHANGED NotBridge

BridgeNext ==
  \/ Launch
  \/ LaunchRustTui
  \/ LaunchPythonCli
  \/ Search
  \/ SearchFallback
  \/ Export
  \/ ExportFallback
  \/ GetStats
  \/ GetStatsFallback

InitBridge ==
  BridgeInit /\ RTSParked /\ SmartParked /\ ExtractParked /\ CLIParked /\ CallParked

SpecBridge == InitBridge /\ [][BridgeNext]_vars

BridgeDone == br.pc \in {"returned", "raised"}

\* C6: search, export and get_stats, when the user does not interrupt them,
\* always complete with a result, and when the accelerated implementation
\* is unavailable or raises, the built-in implementation is invoked and
\* gives the result.
C6_FallbackCompletes ==
  ( /\ BridgeDone /\ br.op \in {"search", "export", "get_stats"}
    /\ br.exception # "KeyboardInterrupt" ) =>
    /\ br.pc = "returned"
    /\ (~br.rust_available \/ br.rust = "error") => br.builtin_invoked
    /\ br.op = "export" => br.result \in {"True", "False"}

\* C7: launch invokes the accelerated UI exactly when it is available,
\* preferred and not forced off; it starts the built-in UI exactly when the
\* accelerated UI was not invoked or failed with an error that is not an
\* interruption; an interruption of either UI gives 0 and starts no other
\* UI; the result is 1 only when the built-in UI failed to launch.
C7_LaunchLogic ==
  (br.pc = "returned" /\ br.op = "launch") =>
    /\ br.rust_invoked <=>
         (br.rust_available /\ br.prefer_rust /\ ~br.force_python)
    /\ br.builtin_invoked <=> (~br.rust_invoked \/ br.rust = "error")
    /\ (br.rust_invoked /\ br.rust = "interrupt") =>
         (br.result = "0" /\ ~br.builtin_invoked)
    /\ (br.builtin_invoked /\ br.builtin = "interrupt") => br.result = "0"
    /\ br.result \in {"0", "1"}
    /\ br.result = "1" <=> (br.builtin_invoked /\ br.builtin = "error")

\* the accelerated UI failed and the built-in UI, started in its place, was
\* interrupted by the user
C7_Witness ==
  /\ br.pc = "returned" /\ br.op = "launch"
  /\ br.rust_invoked /\ br.rust = "error"
  /\ br.builtin_invoked /\ br.builtin = "interrupt"
  /\ br.result = "0"

(***************************************************************************)
(* The files on disk.  A path is a directory and a file name; a file name  *)
(* is kept in its parts: the prefix and the date an export puts in front,  *)
(* the session id or stem, and the extension.                              *)
(***************************************************************************)
\* ClaudeConversationExtractor.claude_dir and a project directory under it
SourceRoot == "~/.claude/projects"
ProjectDir == "~/.claude/projects/p"
\* the first of possible_dirs, and the last, which is also the fallback
DesktopDir == "~/Desktop/Claude logs"
CwdDir == "./claude-logs"
\* a folder the Interactive UI suggests
SuggestedDir == "~/Desktop/Claude Conversations"

UnderSourceRoot(dir) == dir \in {SourceRoot, ProjectDir}

\* datetime.now().strftime("%Y-%m-%d"), and the date of a timestamp that
\* datetime.fromisoformat accepts
Today == <<"d1">>
IsoTimestamps == {<<"d0">>}

\* session_id[:8]
Prefix8(session_id) ==
  SubSeq(session_id, 1, IF Len(session_id) < 8 THEN Len(session_id) ELSE 8)

Path(dir, prefix, date, id, ext) ==
  [dir |-> dir, prefix |-> prefix, date |-> date, id |-> id, ext |-> ext]

\* the path of a session file
SessionPath(dir, stem) == Path(dir, "", <<>>, stem, "jsonl")

\* the session files of the model, most recently modified first, with their
\* lines: a conversation of two messages, dated; a session of tool calls
\* only, whose stem is longer than eight characters; a conversation without
\* timestamps
Sessions ==
  << [path |-> SessionPath(ProjectDir, <<"a", "b">>),
      lines |-> << Stamped(Entry("user", Message("user", JStr(X)), FALSE),
                           JStr(<<"d0">>)),
                   Entry("assistant",
                         Message("assistant", JList(<<Block("text", JStr(X))>>)),
                         FALSE) >>],
     [path |-> SessionPath(ProjectDir, <<"a", "b", "c", "d", "e", "f", "g", "h", "i">>),
      lines |-> << Entry("assistant",
                         Message("assistant", JList(<<Block("tool_use", JAbsent)>>)),
                         FALSE) >>],
     [path |-> SessionPath(SourceRoot, <<"c">>),
      lines |-> << Entry("user", Message("user", JStr(X)), FALSE) >>] >>

\* a file on disk: its path and whether the system has written it
OnDisk(path, written) == [path |-> path, written |-> written]

FilesAtStart == {OnDisk(Sessions[i].path, FALSE) : i \in DOMAIN Sessions}

\* open(path, "w") and the writes that follow
WriteFile(files, path) ==
  {f \in files : f.path # path} \cup {OnDisk(path, TRUE)}

\* test_file.touch(); test_file.unlink()
TouchAndUnlink(files, path) == {f \in files : f.path # path}

\* the session files under the source root
SessionFiles(files) ==
  {f \in files : f.path.ext = "jsonl" /\ UnderSourceRoot(f.path.dir)}

\* ClaudeConversationExtractor.find_sessions: the *.jsonl files under the
\* source root, most recent first
FindSessions(files) ==
  SelectSeq(Sessions, LAMBDA s : \E f \in files : f.path = s.path)

\* extract_conversation and extract_detailed_conversation on a session
\* file that decodes
Conversation(session) == AllMessages(session.lines)

RECURSIVE DetailedMessages(_)
DetailedMessages(lines) ==
  IF lines = <<>> THEN <<>>
  ELSE (IF Head(lines).json = "blank" THEN <<>>
        ELSE DetailedEntryMessages(Head(lines), FALSE))
       \o DetailedMessages(Tail(lines))

\* the date save_as_markdown puts in the file name: that of the first
\* message's timestamp, today when it is missing or does not parse
DateStrMutant(conversation) == Today
DateStr(conversation) ==
  LET first_timestamp == conversation[1].timestamp
  IN IF first_timestamp.is = "str" /\ first_timestamp.str \in IsoTimestamps
     THEN first_timestamp.str ELSE Today

\* the file save_as_markdown writes
MarkdownPath(output_dir, conversation, session_id) ==
  Path(output_dir, "claude-conversation", DateStr(conversation),
       Prefix8(session_id), "md")

\* ClaudeConversationExtractor.save_as_markdown: the files afterwards
SaveAsMarkdown(files, output_dir, conversation, session_id) ==
  IF conversation = <<>> THEN files
  ELSE WriteFile(files, MarkdownPath(output_dir, conversation, session_id))

\* the extension each exporter of ExportManager.exporters writes
ExporterExtensionMutant(format) == IF format = "json" THEN "jsonl" ELSE "md"
ExporterExtension(format) ==
  CASE format = "markdown" -> "md"
    [] format = "md" -> "md"
    [] format = "json" -> "json"
    [] format = "html" -> "html"

\* ClaudeConversationExtractor.save_with_format: ExportManager.export, which
\* writes in the directory the manager was made with (export_dir), and
\* save_as_markdown when the exporter raises (failed = TRUE)
SaveWithFormat(files, output_dir, export_dir, conversation, session_id, format, failed) ==
  IF conversation = <<>> THEN files
  ELSE IF failed
  THEN SaveAsMarkdown(files, output_dir, conversation, session_id)
  ELSE WriteFile(files, Path(export_dir, "claude-conversation", Today,
                             Prefix8(session_id), ExporterExtension(format)))

\* the file extract_detailed_transcript writes
DetailedPath(output_dir, session_id) ==
  Path(output_dir, "claude-detailed", Today, Prefix8(session_id), "md")

\* ClaudeConversationExtractor.extract_detailed_transcript
ExtractDetailedTranscript(files, output_dir, session) ==
  IF DetailedMessages(session.lines) = <<>> THEN files
  ELSE WriteFile(files, DetailedPath(output_dir, session.path.id))

\* the body of the loop of extract_multiple for one index
ExtractOne(files, output_dir, export_dir, sessions, idx, detailed, format, failed) ==
  IF ~(0 <= idx /\ idx < Len(sessions)) THEN files
  ELSE LET session == sessions[idx + 1] IN
       IF detailed THEN ExtractDetailedTranscript(files, output_dir, session)
       ELSE IF format = "markdown"
       THEN SaveAsMarkdown(files, output_dir, Conversation(session), session.path.id)
       ELSE SaveWithFormat(files, output_dir, export_dir, Conversation(session),
                           session.path.id, format, failed)

\* ClaudeConversationExtractor.extract_multiple: the files afterwards
RECURSIVE ExtractMultiple(_, _, _, _, _, _, _, _)
ExtractMultiple(files, output_dir, export_dir, sessions, indices, detailed, format, failed) ==
  IF indices = <<>> THEN files
  ELSE ExtractMultiple(
         ExtractOne(files, output_dir, export_dir, sessions, Head(indices),
                    detailed, format, failed),
         output_dir, export_dir, sessions, Tail(indices), detailed, format, failed)

\* the statistics of main and of InteractiveUI.show_statistics: the
\* aggregate is saved when some session has a conversation
SaveStatistics(files, output_dir, sessions) ==
  IF \A i \in DOMAIN sessions : Conversation(sessions[i]) = <<>> THEN files
  ELSE WriteFile(files, Path(output_dir, "conversation_statistics", <<>>, <<>>, "json"))

(***************************************************************************)
(* The command line: unified_main, main and the Interactive UI.            *)
(* An option that was not given and an option given as "" are both falsy   *)
(* and every use is behind a truth test, so both are the value "".         *)
(***************************************************************************)
\* str.lower, on the values of --export
Lower(s) == IF s = "Logs" THEN "logs" ELSE s

\* the dates datetime.strptime(s, "%Y-%m-%d") accepts
ValidDates == {"2024-01-01"}

\* int(num.strip()) for the items of --extract; "x" raises ValueError
IntOf == [n \in {"1", "2", "3"} |-> IF n = "1" THEN 1 ELSE IF n = "2" THEN 2 ELSE 3]

Formats == {"markdown", "md", "json", "html"}

\* the requests of a command line: every combination of the flags that
\* choose the action; the date bounds go with a search
FlagSpace ==
  {f \in [interactive : BOOLEAN, export : {"", "Logs", "x"},
          search : {"", "q"}, search_regex : {"", "r"},
          search_date_from : {"", "2024-01-01", "2024-13-01"},
          search_date_to : {"", "2024-13-01"},
          stats : BOOLEAN, list : BOOLEAN,
          extract : {<<>>, <<"3", "x">>}, recent : {0, 1}, all : BOOLEAN] :
     (f.search = "" /\ f.search_regex = "") =>
       (f.search_date_from = "" /\ f.search_date_to = "")}

\* the options of an extraction
OptionSpace == [detailed : BOOLEAN, format : Formats, output : {"", ProjectDir}]

NoFlags ==
  [interactive |-> FALSE, export |-> "", search |-> "", search_regex |-> "",
   search_date_from |-> "", search_date_to |-> "", stats |-> FALSE,
   list |-> FALSE, extract |-> <<>>, recent |-> 0, all |-> FALSE]

DefaultOptions == [detailed |-> FALSE, format |-> "markdown", output |-> ""]

\* a command line with at most one flag off its default
SingleRequests ==
  {f \in FlagSpace :
     Cardinality({k \in DOMAIN f : f[k] # NoFlags[k]}) <= 1}

\* the tests of main, in the words of the code
InteractiveRequested(args) ==
  args.interactive \/ (args.export # "" /\ Lower(args.export) = "logs")

SearchRequested(args) == args.search # "" \/ args.search_regex # ""

ListRequestedMutant(args) == args.list /\ args.extract = <<>>
ListRequested(args) ==
  \/ args.list
  \/ /\ args.extract = <<>> /\ ~args.all /\ args.recent = 0
     /\ args.search = "" /\ args.search_regex = "" /\ ~args.stats

\* the indices main parses from --extract: 1-based numbers, the items that
\* are not numbers reported and passed over
RECURSIVE ParseIndices(_)
ParseIndices(items) ==
  IF items = <<>> THEN <<>>
  ELSE (IF Head(items) \in DOMAIN IntOf THEN <<IntOf[Head(items)] - 1>> ELSE <<>>)
       \o ParseIndices(Tail(items))

\* list(range(n))
Range(n) == [i \in 1..n |-> i - 1]

\* the directories ClaudeConversationExtractor.__init__ may settle on when
\* no output directory is given
DefaultDirs == {DesktopDir, CwdDir}

\* ClaudeConversationExtractor.__init__: the directory is made, and when it
\* is one of the default ones a file .test is created in it and removed
ConstructExtractor(output, dir) ==
  IF output # ""
  THEN [output_dir |-> output,
        files |-> fs.files,
        dirs |-> fs.dirs \cup {output}]
  ELSE [output_dir |-> dir,
        files |-> TouchAndUnlink(fs.files, Path(dir, ".test", <<>>, <<>>, "")),
        dirs |-> fs.dirs \cup {dir}]

CLIStart(pc, argv, args, fails) ==
  /\ cli = [pc |-> pc, argv |-> argv, args |-> args, exporter_fails |-> fails,
            reached |-> "none", performed |-> <<>>, searches |-> <<>>,
            exception |-> "none", output_dir |-> "", export_dir |-> "",
            folder |-> "", sessions |-> <<>>]
  /\ fs = [files |-> FilesAtStart, dirs |-> {SourceRoot, ProjectDir}]

\* main is called with a command line of flags
MainInit ==
  \E f \in FlagSpace :
    CLIStart("main", "flags", f @@ DefaultOptions, FALSE)

\* unified_main is called: with no argument, with the argument search, or
\* with one request and its options
CLIInit ==
  \E argv \in {"none", "search", "flags"}, f \in SingleRequests,
     o \in OptionSpace, fails \in BOOLEAN :
    /\ argv # "flags" => (f = NoFlags /\ o = DefaultOptions /\ ~fails)
    /\ CLIStart("unified_main", argv, f @@ o, fails)

\* unified_main
UnifiedMain ==
  /\ cli.pc = "unified_main"
  /\ cli' = [cli EXCEPT !.pc = CASE cli.argv = "search" -> "search_main"
                                 [] cli.argv = "none" -> "launch_interactive"
                                 [] OTHER -> "main"]
  /\ UNCHANGED <<fs, NotCLI>>

\* `from realtime_search import main as search_main; return search_main()`
SearchMain ==
  /\ cli.pc = "search_main"
  /\ cli' = IF CanImport("realtime_search", "main")
            THEN [cli EXCEPT !.pc = "returned", !.reached = "realtime_search"]
            ELSE [cli EXCEPT !.pc = "raised", !.exception = "ImportError"]
  /\ UNCHANGED <<fs, NotCLI>>

\* launch_interactive
LaunchInteractive ==
  /\ cli.pc = "launch_interactive"
  /\ cli' = IF CanImport("interactive_ui", "main")
            THEN [cli EXCEPT !.pc = "interactive_main", !.reached = "interactive_ui"]
            ELSE [cli EXCEPT !.pc = "raised", !.exception = "ImportError"]
  /\ UNCHANGED <<fs, NotCLI>>

\* main, up to the dispatch: the hand-off to the Interactive UI, or the
\* extractor made
Main ==
  /\ cli.pc = "main"
  /\ IF InteractiveRequested(cli.args)
     THEN /\ cli' = [cli EXCEPT !.pc = "interactive_main",
                                !.reached = "main",
                                !.performed = Append(@, "interactive")]
          /\ UNCHANGED fs
     ELSE \E dir \in DefaultDirs :
            LET made == ConstructExtractor(cli.args.output, dir) IN
            /\ cli' = [cli EXCEPT !.pc = "dispatch", !.reached = "main",
                                  !.output_dir = made.output_dir,
                                  !.export_dir = made.output_dir]
            /\ fs' = [files |-> made.files, dirs |-> made.dirs]
  /\ UNCHANGED NotCLI

\* what main does once a branch is taken
Performs(action) == [cli EXCEPT !.pc = "returned", !.performed = Append(@, action)]

\* the files after main's extract_multiple over the sessions found
MainExtractMultiple(sessions, indices) ==
  [fs EXCEPT !.files =
     ExtractMultiple(fs.files, cli.output_dir, cli.export_dir, sessions, indices,
                     cli.args.detailed, cli.args.format, cli.exporter_fails)]

\* sessions[:20]
First20(sessions) ==
  SubSeq(sessions, 1, IF Len(sessions) < 20 THEN Len(sessions) ELSE 20)

\* main, the search branch: the date bounds are parsed first and an invalid
\* one returns; then searcher.search is called
MainSearch ==
  /\ cli.pc = "dispatch"
  /\ SearchRequested(cli.args)
  /\ LET query == IF cli.args.search_regex # "" THEN cli.args.search_regex
                  ELSE cli.args.search
         mode == IF cli.args.search_regex # "" THEN "regex" ELSE "smart"
         bad(d) == d # "" /\ d \notin ValidDates
     IN cli' = IF bad(cli.args.search_date_from) \/ bad(cli.args.search_date_to)
               THEN Performs("search")
               ELSE [Performs("search") EXCEPT !.searches =
                       Append(@, [query |-> query, mode |-> mode,
                                  date_from |-> cli.args.search_date_from,
                                  date_to |-> cli.args.search_date_to])]
  /\ UNCHANGED <<fs, NotCLI>>

\* main, the statistics branch
MainStats ==
  /\ cli.pc = "dispatch"
  /\ ~SearchRequested(cli.args)
  /\ cli.args.stats
  /\ cli' = Performs("statistics")
  /\ fs' = [fs EXCEPT !.files =
       SaveStatistics(fs.files, cli.output_dir, First20(FindSessions(fs.files)))]
  /\ UNCHANGED NotCLI

\* main, the listing branch: list_recent_sessions prints
MainList ==
  /\ cli.pc = "dispatch"
  /\ ~SearchRequested(cli.args) /\ ~cli.args.stats
  /\ ListRequested(cli.args)
  /\ cli' = Performs("listing")
  /\ UNCHANGED <<fs, NotCLI>>

\* main, the --extract branch
MainExtract ==
  /\ cli.pc = "dispatch"
  /\ ~SearchRequested(cli.args) /\ ~cli.args.stats
  /\ ~ListRequested(cli.args)
  /\ cli.args.extract # <<>>
  /\ cli' = Performs("extract-by-index")
  /\ fs' = MainExtractMultiple(FindSessions(fs.files), ParseIndices(cli.args.extract))
  /\ UNCHANGED NotCLI

\* main, the --recent branch
MainRecent ==
  /\ cli.pc = "dispatch"
  /\ ~SearchRequested(cli.args) /\ ~cli.args.stats
  /\ ~ListRequested(cli.args)
  /\ cli.args.extract = <<>>
  /\ cli.args.recent # 0
  /\ cli' = Performs("extract-recent")
  /\ LET sessions == FindSessions(fs.files)
     IN fs' = MainExtractMultiple(sessions, Range(Min(cli.args.recent, Len(sessions))))
  /\ UNCHANGED NotCLI

\* main, the --all branch
MainAll ==
  /\ cli.pc = "dispatch"
  /\ ~SearchRequested(cli.args) /\ ~cli.args.stats
  /\ ~ListRequested(cli.args)
  /\ cli.args.extract = <<>>
  /\ cli.args.recent = 0
  /\ cli.args.all
  /\ cli' = Performs("extract-all")
  /\ LET sessions == FindSessions(fs.files)
     IN fs' = MainExtractMultiple(sessions, Range(Len(sessions)))
  /\ UNCHANGED NotCLI

MainNext ==
  \/ Main
  \/ MainSearch
  \/ MainStats
  \/ MainList
  \/ MainExtract
  \/ MainRecent
  \/ MainAll

\* interactive_ui.main: InteractiveUI() makes an extractor with no output
\* directory given
InteractiveMain ==
  /\ cli.pc = "interactive_main"
  /\ \E dir \in DefaultDirs :
       LET made == ConstructExtractor("", dir) IN
       /\ cli' = [cli EXCEPT !.pc = "get_folder_selection",
                             !.output_dir = made.output_dir,
                             !.export_dir = made.output_dir]
       /\ fs' = [files |-> made.files, dirs |-> made.dirs]
  /\ UNCHANGED NotCLI

\* InteractiveUI.get_folder_selection: Q, a suggested folder or a custom one
GetFolderSelection ==
  /\ cli.pc = "get_folder_selection"
  /\ \E choice \in {"Q", SuggestedDir, ProjectDir} :
       cli' = IF choice = "Q" THEN [cli EXCEPT !.pc = "returned"]
              ELSE [cli EXCEPT !.pc = "show_sessions_menu", !.folder = choice]
  /\ UNCHANGED <<fs, NotCLI>>

\* InteractiveUI.show_sessions_menu, choice Q
MenuQuit ==
  /\ cli.pc = "show_sessions_menu"
  /\ cli' = [cli EXCEPT !.pc = "returned"]
  /\ UNCHANGED <<fs, NotCLI>>

\* InteractiveUI.show_sessions_menu, choice T: show_statistics saves the
\* aggregate in the extractor's directory and the menu is shown again
MenuStatistics ==
  /\ cli.pc = "show_sessions_menu"
  /\ fs' = [fs EXCEPT !.files =
       SaveStatistics(fs.files, cli.output_dir, First20(FindSessions(fs.files)))]
  /\ UNCHANGED <<cli, NotCLI>>

\* the selections of the menu: all (A), the five most recent (R), or the
\* numbers typed in (S, D, E) or found by the search screen (F)
Selections(sessions) ==
  {Range(Len(sessions)), Range(Min(5, Len(sessions))), <<0>>, <<1, 0>>}

\* InteractiveUI.show_sessions_menu, a choice that selects sessions, and
\* the rest of run: the folder is made, it becomes the extractor's output
\* directory, and extract_multiple runs with the detailed mode (D) or the
\* format (E) chosen
MenuExtract ==
  /\ cli.pc = "show_sessions_menu"
  /\ LET sessions == FindSessions(fs.files) IN
     \E indices \in Selections(sessions), detailed \in BOOLEAN,
        format \in {"markdown", "json", "html"} :
       /\ detailed => format = "markdown"
       /\ \A k \in DOMAIN indices : indices[k] < Len(sessions)
       /\ cli' = [cli EXCEPT !.pc = "returned", !.output_dir = cli.folder]
       /\ fs' = [files |-> ExtractMultiple(fs.files, cli.folder, cli.export_dir,
                             sessions, indices, detailed, format, cli.exporter_fails),
                 dirs |-> fs.dirs \cup {cli.folder}]
  /\ UNCHANGED NotCLI

CLINext ==
  \/ UnifiedMain
  \/ SearchMain
  \/ LaunchInteractive
  \/ MainNext
  \/ InteractiveMain
  \/ GetFolderSelection
  \/ MenuQuit
  \/ MenuStatistics
  \/ MenuExtract

InitMain ==
  MainInit /\ RTSParked /\ SmartParked /\ ExtractParked /\ BridgeParked /\ CallParked

SpecMain == InitMain /\ [][MainNext]_vars

InitCLI ==
  CLIInit /\ RTSParked /\ SmartParked /\ ExtractParked /\ BridgeParked /\ CallParked

SpecCLI == InitCLI /\ [][CLINext]_vars

(***************************************************************************)
(* Properties of the command line.                                         *)
(***************************************************************************)
\* the actions of main in their order of precedence
ActionOrder ==
  <<"interactive", "search", "statistics", "listing",
    "extract-by-index", "extract-recent", "extract-all">>

\* the actions a command line asks for; listing is also what no request at
\* all asks for
Applicable(args) ==
  LET asked ==
        {a \in {"interactive"} : args.interactive \/ Lower(args.export) = "logs"}
        \cup {a \in {"search"} : args.search # "" \/ args.search_regex # ""}
        \cup {a \in {"statistics"} : args.stats}
        \cup {a \in {"listing"} : args.list}
        \cup {a \in {"extract-by-index"} : args.extract # <<>>}
        \cup {a \in {"extract-recent"} : args.recent # 0}
        \cup {a \in {"extract-all"} : args.all}
  IN IF asked = {} THEN {"listing"} ELSE asked

FirstApplicable(args) ==
  LET i == CHOOSE i \in DOMAIN ActionOrder :
             /\ ActionOrder[i] \in Applicable(args)
             /\ \A j \in 1..(i - 1) : ActionOrder[j] \notin Applicable(args)
  IN ActionOrder[i]

InvalidDate(args) ==
  \/ args.search_date_from # "" /\ args.search_date_from \notin ValidDates
  \/ args.search_date_to # "" /\ args.search_date_to \notin ValidDates

MainOver == cli.argv = "flags" /\ cli.pc \in {"returned", "interactive_main"}

\* C8: main performs exactly one action, the first one in the order
\* interactive, search, statistics, listing, extract-by-index,
\* extract-recent, extract-all that the flags ask for; --list with an
\* extraction flag only lists and writes nothing, --extract wins over
\* --recent, --recent over --all, and with an invalid date no search is run.
C8_FirstApplicableAction ==
  /\ cli.pc \in {"main", "dispatch"} => cli.performed = <<>>
  /\ MainOver =>
       /\ cli.performed = <<FirstApplicable(cli.args)>>
       /\ (cli.args.list /\ cli.performed = <<"listing">>) => fs.files = FilesAtStart
       /\ (cli.args.list /\ Applicable(cli.args) \subseteq
             {"listing", "extract-by-index", "extract-recent", "extract-all"})
            => cli.performed = <<"listing">>
       /\ (cli.args.extract # <<>> /\ cli.args.recent # 0)
            => cli.performed # <<"extract-recent">>
       /\ (cli.args.recent # 0 /\ cli.args.all)
            => cli.performed # <<"extract-all">>
       /\ InvalidDate(cli.args) => cli.searches = <<>>
       /\ (cli.performed = <<"search">> /\ ~InvalidDate(cli.args))
            => Len(cli.searches) = 1

\* --extract, --recent and --all were given together, without --list: the
\* session named by --extract, and only it, was extracted
C8_Witness ==
  /\ MainOver
  /\ cli.args.extract # <<>> /\ cli.args.recent # 0 /\ cli.args.all
  /\ ~cli.args.list
  /\ cli.performed = <<"extract-by-index">>
  /\ {f.path.id : f \in fs.files \ FilesAtStart} = {<<"c">>}

CLIOver == cli.pc \in {"returned", "raised"}

\* C9: unified_main with the one argument search reaches the Real-Time
\* Search screen and returns its result, with no argument it reaches the
\* Interactive UI, and otherwise it reaches the flag dispatcher.
C9_TargetReached ==
  CLIOver =>
    /\ cli.argv = "search" => (cli.pc = "returned" /\ cli.reached = "realtime_search")
    /\ cli.argv = "none" => cli.reached = "interactive_ui"
    /\ cli.argv = "flags" => cli.reached = "main"

\* C10: whatever the command line and the menu choices, the session files
\* under the source root are the ones found at the start, unwritten: none
\* is created, modified or deleted.
C10_SessionFilesUntouched ==
  cli.pc # "parked" => SessionFiles(fs.files) = FilesAtStart

\* a run has written an export in JSON under the source root, next to the
\* session files
C10_Witness ==
  /\ CLIOver
  /\ \E f \in fs.files :
       /\ f.written /\ f.path.ext = "json" /\ f.path.prefix = "claude-conversation"
       /\ UnderSourceRoot(f.path.dir)

(***************************************************************************)
(* export_formats.py: ExportManager and its three renderers, next to the   *)
(* two export operations of ClaudeConversationExtractor.  One call is      *)
(* followed by further exports of the same session in the same format.     *)
(***************************************************************************)
MaxExports == 2

\* the letters str.lower changes, and what it changes them to
Uppercase == <<"A", "D", "H", "J", "K", "L", "M", "N", "O", "R", "S", "T", "W", "Y">>
Lowercase == <<"a", "d", "h", "j", "k", "l", "m", "n", "o", "r", "s", "t", "w", "y">>

LowerChar(c) ==
  IF \E i \in DOMAIN Uppercase : Uppercase[i] = c
  THEN Lowercase[CHOOSE i \in DOMAIN Uppercase : Uppercase[i] = c]
  ELSE c

UpperChar(c) ==
  IF \E i \in DOMAIN Lowercase : Lowercase[i] = c
  THEN Uppercase[CHOOSE i \in DOMAIN Lowercase : Lowercase[i] = c]
  ELSE c

\* format.lower()
FormatLowerMutant(format) == format
FormatLower(format) == [i \in DOMAIN format |-> LowerChar(format[i])]

\* the keys of ExportManager.exporters, in the order of the dict
ExporterKeys == <<"markdown", "md", "json", "html">>

\* the characters of a key
Spell(key) ==
  CASE key = "markdown" -> <<"m", "a", "r", "k", "d", "o", "w", "n">>
    [] key = "md" -> <<"m", "d">>
    [] key = "json" -> <<"j", "s", "o", "n">>
    [] key = "html" -> <<"h", "t", "m", "l">>

\* the class of the exporter under each key
ExporterClass(key) ==
  CASE key = "markdown" -> "MarkdownExporter"
    [] key = "md" -> "MarkdownExporter"
    [] key = "json" -> "JSONExporter"
    [] key = "html" -> "HTMLExporter"

\* format_lower in self.exporters: the keys that are format_lower
KeysOf(format_lower) ==
  {ExporterKeys[i] : i \in {j \in DOMAIN ExporterKeys : Spell(ExporterKeys[j]) = format_lower}}

\* the formats asked for: the keys and some other names, in lower case, in
\* upper case and capitalised
RequestedFormats ==
  LET names == {Spell(ExporterKeys[i]) : i \in DOMAIN ExporterKeys}
               \cup { <<"y", "a", "m", "l">>, <<>>, <<"j", "s", "o", "n", "l">>, <<"m">> }
      upper(n) == [i \in DOMAIN n |-> UpperChar(n[i])]
      capitalised(n) == [i \in DOMAIN n |-> IF i = 1 THEN UpperChar(n[i]) ELSE n[i]]
  IN names \cup {upper(n) : n \in names} \cup {capitalised(n) : n \in names}

\* a message as extract_conversation returns it
ExportMessage(timestamp) == [role |-> "user", content |-> X, timestamp |-> timestamp]

\* the conversations exported: empty, dated, undated, and with a first
\* timestamp that is not a date
ExportConversations ==
  LET dated == ExportMessage(JStr(<<"d0">>))
      undated == ExportMessage(JStr(<<>>))
      odd == ExportMessage(JStr(<<"z">>))
  IN { <<>>, <<dated>>, <<undated>>, <<odd>>, <<dated, undated>>, <<undated, dated>> }

\* session ids: a short one and two that agree on their first eight
\* characters
ExportSessionIds ==
  { <<"a", "b">>,
    <<"a", "b", "c", "d", "e", "f", "g", "h", "i">>,
    <<"a", "b", "c", "d", "e", "f", "g", "h", "j">> }

ExportDirs == {DesktopDir, ProjectDir}

None == [is |-> "none"]
Returns(path) == [is |-> "path", path |-> path]

\* the start of a call: its arguments, the files before it, and the
\* exports (done) made before it
ExportCall(op, format, conversation, session_id, lines, output_dir, files, done) ==
  [pc |-> "call", op |-> op, format |-> format, conversation |-> conversation,
   session_id |-> session_id, lines |-> lines, output_dir |-> output_dir,
   before |-> files, key |-> "", ran |-> <<>>, result |-> None,
   exception |-> "none", message |-> None, done |-> done]

ExportInit ==
  /\ fs = [files |-> FilesAtStart, dirs |-> {SourceRoot, ProjectDir}]
  /\ \/ \E format \in RequestedFormats, conversation \in ExportConversations,
           session_id \in ExportSessionIds, output_dir \in ExportDirs :
          call = ExportCall("export", format, conversation, session_id, <<>>,
                            output_dir, FilesAtStart, <<>>)
     \/ \E conversation \in ExportConversations, session_id \in ExportSessionIds,
           output_dir \in ExportDirs :
          call = ExportCall("save_as_markdown", Spell("markdown"), conversation,
                            session_id, <<>>, output_dir, FilesAtStart, <<>>)
     \/ \E i \in DOMAIN Sessions, output_dir \in ExportDirs :
          call = ExportCall("extract_detailed_transcript", Spell("markdown"), <<>>,
                            Sessions[i].path.id, Sessions[i].lines, output_dir, FilesAtStart, <<>>)

\* ExportManager.export: the format is looked up in lower case; an unknown
\* one raises ValueError, a known one goes to its exporter
ManagerExport ==
  /\ call.pc = "call" /\ call.op = "export"
  /\ LET format_lower == FormatLower(call.format)
     IN call' =
          IF KeysOf(format_lower) = {}
          THEN [call EXCEPT !.pc = "raised", !.exception = "ValueError",
                            !.message = [format |-> call.format,
                                         available |-> ExporterKeys]]
          ELSE [call EXCEPT !.pc = "render",
                            !.key = CHOOSE k \in KeysOf(format_lower) : TRUE]
  /\ UNCHANGED <<fs, NotCall>>

\* the file an exporter writes
ExporterPath(output_dir, session_id, key) ==
  Path(output_dir, "claude-conversation", Today, Prefix8(session_id),
       ExporterExtension(key))

\* MarkdownExporter.export
MarkdownExporterExport ==
  /\ call.pc = "render" /\ ExporterClass(call.key) = "MarkdownExporter"
  /\ LET output_path == ExporterPath(call.output_dir, call.session_id, call.key)
     IN /\ fs' = [fs EXCEPT !.files = WriteFile(@, output_path),
                            !.dirs = @ \cup {call.output_dir}]
        /\ call' = [call EXCEPT !.pc = "returned",
                                !.ran = Append(@, "MarkdownExporter"),
                                !.result = Returns(output_path)]
  /\ UNCHANGED NotCall

\* JSONExporter.export
JSONExporterExport ==
  /\ call.pc = "render" /\ ExporterClass(call.key) = "JSONExporter"
  /\ LET output_path == ExporterPath(call.output_dir, call.session_id, call.key)
     IN /\ fs' = [fs EXCEPT !.files = WriteFile(@, output_path),
                            !.dirs = @ \cup {call.output_dir}]
        /\ call' = [call EXCEPT !.pc = "returned",
                                !.ran = Append(@, "JSONExporter"),
                                !.result = Returns(output_path)]
  /\ UNCHANGED NotCall

\* HTMLExporter.export
HTMLExporterExport ==
  /\ call.pc = "render" /\ ExporterClass(call.key) = "HTMLExporter"
  /\ LET output_path == ExporterPath(call.output_dir, call.session_id, call.key)
     IN /\ fs' = [fs EXCEPT !.files = WriteFile(@, output_path),
                            !.dirs = @ \cup {call.output_dir}]
        /\ call' = [call EXCEPT !.pc = "returned",
                                !.ran = Append(@, "HTMLExporter"),
                                !.result = Returns(output_path)]
  /\ UNCHANGED NotCall

\* ClaudeConversationExtractor.save_as_markdown
SaveAsMarkdownCall ==
  /\ call.pc = "call" /\ call.op = "save_as_markdown"
  /\ fs' = [fs EXCEPT !.files = SaveAsMarkdown(@, call.output_dir,
                                               call.conversation, call.session_id)]
  /\ call' = [call EXCEPT !.pc = "returned",
                !.result = IF call.conversation = <<>> THEN None
                           ELSE Returns(MarkdownPath(call.output_dir,
                                                     call.conversation,
                                                     call.session_id))]
  /\ UNCHANGED NotCall

\* ClaudeConversationExtractor.extract_detailed_transcript
ExtractDetailedTranscriptCall ==
  /\ call.pc = "call" /\ call.op = "extract_detailed_transcript"
  /\ LET session == [path |-> SessionPath(ProjectDir, call.session_id),
                     lines |-> call.lines]
     IN /\ fs' = [fs EXCEPT !.files = ExtractDetailedTranscript(@, call.output_dir,
                                                                session)]
        /\ call' = [call EXCEPT !.pc = "returned",
                      !.result = IF DetailedMessages(call.lines) = <<>> THEN None
                                 ELSE Returns(DetailedPath(call.output_dir,
                                                           call.session_id))]
  /\ UNCHANGED NotCall

ExportOver == call.pc \in {"returned", "raised"}

\* what is kept of an export that is over
Exported(c) ==
  [op |-> c.op, format |-> c.format, session_id |-> c.session_id,
   conversation |-> c.conversation, result |-> c.result]

IsPrefix(s, t) == Len(s) <= Len(t) /\ SubSeq(t, 1, Len(s)) = s

\* the same session is exported again on the same day in the same format,
\* written in any letter case; the session may have grown meanwhile
ExportAgain ==
  /\ ExportOver
  /\ Len(call.done) + 1 < MaxExports
  /\ \E format \in RequestedFormats, conversation \in ExportConversations :
       /\ FormatLower(format) = FormatLower(call.format)
       /\ call.op = "export" \/ format = call.format
       /\ IsPrefix(call.conversation, conversation)
       /\ call.op = "extract_detailed_transcript" => conversation = call.conversation
       /\ call' = ExportCall(call.op, format, conversation, call.session_id,
                             call.lines, call.output_dir, fs.files,
                             Append(call.done, Exported(call)))
  /\ UNCHANGED <<fs, NotCall>>

ExportNext ==
  \/ ManagerExport
  \/ MarkdownExporterExport
  \/ JSONExporterExport
  \/ HTMLExporterExport
  \/ SaveAsMarkdownCall
  \/ ExtractDetailedTranscriptCall
  \/ ExportAgain

InitExport ==
  ExportInit /\ RTSParked /\ SmartParked /\ ExtractParked /\ BridgeParked
  /\ cli = [pc |-> "parked"]

SpecExport == InitExport /\ [][ExportNext]_vars

\* the exports made so far, the one that has just ended included
Exports == call.done \o (IF ExportOver THEN <<Exported(call)>> ELSE <<>>)

\* format is name written in some letter case
Names(format, name) ==
  /\ Len(format) = Len(name)
  /\ \A i \in DOMAIN name : format[i] \in {name[i], UpperChar(name[i])}

\* C11: ExportManager.export with a format whose lower-cased name is none
\* of markdown, md, json, html raises the unsupported-format error, which
\* names the format as requested and the four keys, with no renderer run
\* and no file created or changed; with one of the four, in any letter
\* case, the matching renderer runs and no other.
C11_FormatSelectsRenderer ==
  (call.pc # "parked" /\ call.op = "export") =>
    LET markdown == \/ Names(call.format, <<"m", "a", "r", "k", "d", "o", "w", "n">>)
                    \/ Names(call.format, <<"m", "d">>)
        json == Names(call.format, <<"j", "s", "o", "n">>)
        html == Names(call.format, <<"h", "t", "m", "l">>)
        supported == markdown \/ json \/ html
    IN /\ call.pc = "render" => (supported /\ call.ran = <<>> /\ fs.files = call.before)
       /\ (ExportOver /\ ~supported) =>
            /\ call.pc = "raised" /\ call.exception = "ValueError"
            /\ call.message = [format |-> call.format,
                               available |-> <<"markdown", "md", "json", "html">>]
            /\ call.ran = <<>>
            /\ fs.files = call.before
       /\ (ExportOver /\ supported) =>
            /\ call.pc = "returned" /\ call.exception = "none"
            /\ markdown => call.ran = <<"MarkdownExporter">> /\ call.result.path.ext = "md"
            /\ json => call.ran = <<"JSONExporter">> /\ call.result.path.ext = "json"
            /\ html => call.ran = <<"HTMLExporter">> /\ call.result.path.ext = "html"
            /\ fs.files = WriteFile(call.before, call.result.path)

\* YAML, in capitals, was refused under that name
C11_Witness ==
  /\ call.op = "export" /\ call.pc = "raised"
  /\ call.format = <<"Y", "A", "M", "L">>
  /\ call.message.format = <<"Y", "A", "M", "L">>

\* the first eight characters of the session id, or all of them when there
\* are fewer
FirstEight(session_id) ==
  [i \in 1..(IF Len(session_id) < 8 THEN Len(session_id) ELSE 8) |-> session_id[i]]

\* the exports that wrote a file
FileExports == {i \in DOMAIN Exports : Exports[i].result.is = "path"}

SameTarget ==
  \A i, j \in FileExports : Exports[i].result.path = Exports[j].result.path

\* C12 as stated: every export operation names its file from today's date
\* and the first 8 characters of the session id, whatever timestamps the
\* conversation holds, so that exports of the same session in the same
\* format on the same day target the same file.
C12_NamedFromToday ==
  call.pc # "parked" =>
    /\ \A i \in FileExports :
         /\ Exports[i].result.path.date = Today
         /\ Exports[i].result.path.id = FirstEight(Exports[i].session_id)
    /\ SameTarget

\* C12: the renderers and extract_detailed_transcript name the file from
\* today's date, save_as_markdown from the date of the first message's
\* timestamp when that is an ISO timestamp and from today otherwise; all
\* use the first 8 characters of the session id, and exports of the same
\* session in the same format on the same day target the same file.
C12_NamedFromFirstTimestampOrToday ==
  call.pc # "parked" =>
    /\ \A i \in FileExports :
         LET e == Exports[i]
             dated == /\ e.op = "save_as_markdown"
                      /\ e.conversation[1].timestamp = JStr(<<"d0">>)
         IN /\ e.result.path.date = (IF dated THEN <<"d0">> ELSE Today)
            /\ e.result.path.id = FirstEight(e.session_id)
            /\ e.result.path.prefix =
                 (IF e.op = "extract_detailed_transcript" THEN "claude-detailed"
                  ELSE "claude-conversation")
    /\ SameTarget

\* save_as_markdown wrote a dated conversation twice, under the date of its
\* first message and the first eight characters of a longer session id
C12_Witness ==
  /\ call.pc = "returned" /\ call.op = "save_as_markdown"
  /\ Len(Exports) = 2 /\ FileExports = {1, 2}
  /\ Exports[2].conversation # Exports[1].conversation
  /\ Exports[1].result.path.date = <<"d0">>
  /\ Len(call.session_id) > 8

(***************************************************************************)
(* extract_claude_logs.py: extract_multiple, one iteration of its loop at  *)
(* a time.  The log keeps, for each index handled, whether a session was   *)
(* read for it and what became of it.                                      *)
(***************************************************************************)
MaxIndices == 3

\* two sessions whose stems differ after the eighth character only, each a
\* conversation of one message
TwinSessions ==
  << [path |-> SessionPath(ProjectDir, <<"a", "b", "c", "d", "e", "f", "g", "h", "j">>),
      lines |-> << Entry("user", Message("user", JStr(X)), FALSE) >>],
     [path |-> SessionPath(ProjectDir, <<"a", "b", "c", "d", "e", "f", "g", "h", "k">>),
      lines |-> << Entry("user", Message("user", JStr(X)), FALSE) >>] >>

\* the session lists handed to extract_multiple
SessionLists ==
  {SubSeq(Sessions, 1, n) : n \in 0..Len(Sessions)} \cup {TwinSessions}

\* the indices asked for: some below 0 and some past the end
IndexValues == (0 - 1)..Len(Sessions)

BatchInit ==
  \E sessions \in SessionLists, indices \in SeqsUpTo(IndexValues, MaxIndices),
     detailed \in BOOLEAN, format \in {"markdown", "json"},
     exporter_fails \in BOOLEAN :
       /\ fs = [files |-> FilesAtStart \cup
                           {OnDisk(sessions[i].path, FALSE) : i \in DOMAIN sessions},
                dirs |-> {SourceRoot, ProjectDir}]
       /\ exporter_fails => (~detailed /\ format # "markdown")
       /\ detailed => format = "markdown"
       /\ call = [pc |-> "loop", op |-> "extract_multiple", sessions |-> sessions,
                  indices |-> indices, detailed |-> detailed, format |-> format,
                  exporter_fails |-> exporter_fails, output_dir |-> DesktopDir,
                  i |-> 1, success |-> 0, total |-> Len(indices), log |-> <<>>,
                  result |-> None]

\* if output_path:
PathTruthyMutant(output_path) == TRUE
PathTruthy(output_path) == output_path.is = "path"

\* 0 <= idx < len(sessions)
InRange(idx, sessions) == 0 <= idx /\ idx < Len(sessions)

BatchAt == call.pc = "loop" /\ call.i <= Len(call.indices)

\* what the loop body leaves in the call: the count, the log, the next index
Handled(idx, read, outcome, output_path) ==
  [call EXCEPT !.i = @ + 1,
               !.success = IF PathTruthy(output_path) /\ outcome # "invalid"
                           THEN @ + 1 ELSE @,
               !.log = Append(@, [idx |-> idx, read |-> read, outcome |-> outcome,
                                  path |-> output_path])]

\* the index is not one of sessions: "Invalid session number"
BatchInvalid ==
  /\ BatchAt
  /\ ~InRange(call.indices[call.i], call.sessions)
  /\ call' = Handled(call.indices[call.i], FALSE, "invalid", None)
  /\ UNCHANGED <<fs, NotCall>>

\* detailed: extract_detailed_transcript, counted or "Skipped"
BatchDetailed ==
  /\ BatchAt
  /\ InRange(call.indices[call.i], call.sessions)
  /\ call.detailed
  /\ LET idx == call.indices[call.i]
         session_path == call.sessions[idx + 1]
         output_path == IF DetailedMessages(session_path.lines) = <<>> THEN None
                        ELSE Returns(DetailedPath(call.output_dir, session_path.path.id))
     IN /\ fs' = [fs EXCEPT !.files = ExtractDetailedTranscript(@, call.output_dir,
                                                                session_path)]
        /\ call' = Handled(idx, TRUE,
                           IF PathTruthy(output_path) THEN "success" ELSE "skipped",
                           output_path)
  /\ UNCHANGED NotCall

\* standard: extract_conversation, then save_as_markdown or
\* save_with_format; counted, "Failed to save" or "Skipped"
BatchStandard ==
  /\ BatchAt
  /\ InRange(call.indices[call.i], call.sessions)
  /\ ~call.detailed
  /\ LET idx == call.indices[call.i]
         session_path == call.sessions[idx + 1]
         conversation == Conversation(session_path)
         stem == session_path.path.id
         output_path ==
           IF conversation = <<>> THEN None
           ELSE IF call.format = "markdown" \/ call.exporter_fails
           THEN Returns(MarkdownPath(call.output_dir, conversation, stem))
           ELSE Returns(ExporterPath(call.output_dir, stem, call.format))
     IN /\ fs' = [fs EXCEPT !.files =
                    ExtractOne(@, call.output_dir, call.output_dir, call.sessions, idx,
                               FALSE, call.format, call.exporter_fails)]
        /\ call' = Handled(idx, TRUE,
                           IF conversation = <<>> THEN "skipped"
                           ELSE IF PathTruthy(output_path) THEN "success" ELSE "failed",
                           output_path)
  /\ UNCHANGED NotCall

\* return success, total
BatchReturn ==
  /\ call.pc = "loop" /\ call.i > Len(call.indices)
  /\ call' = [call EXCEPT !.pc = "returned",
                          !.result = [success |-> call.success, total |-> call.total]]
  /\ UNCHANGED <<fs, NotCall>>

BatchNext == BatchInvalid \/ BatchDetailed \/ BatchStandard \/ BatchReturn

InitBatch ==
  BatchInit /\ RTSParked /\ SmartParked /\ ExtractParked /\ BridgeParked
  /\ cli = [pc |-> "parked"]

SpecBatch == InitBatch /\ [][BatchNext]_vars

\* the session of an index yields no message
YieldsNothing(k) ==
  LET session == call.sessions[call.indices[k] + 1]
  IN IF call.detailed THEN DetailedMessages(session.lines) = <<>>
     ELSE AllMessages(session.lines) = <<>>

\* the entries of the log whose index is one of sessions
Valid == {k \in DOMAIN call.log :
            0 <= call.indices[k] /\ call.indices[k] < Len(call.sessions)}

StopWasSet == stop_event \/ worker.pc = "exited"

\* C14: when run has ended, by Escape, by Enter on a selected result or by
\* a keyboard interruption, the terminal is back in its original input
\* mode and the stop signal of the worker has been set; Escape and the
\* interruption return no selection, Enter returns the path of the
\* selected result.
C14_RunEndsCleanly ==
  (worker # <<>> /\ ui.pc = "returned") =>
    /\ ~ui.raw
    /\ StopWasSet
    /\ ui.retval.kind \in {"none", "path"}

(***************************************************************************)
(* Properties of the worker and of the keys.                               *)
(***************************************************************************)
\* the worker is past the test of the empty query, on the way of a search
\* or of a cache read
WorkerSearching ==
  worker.pc \in {"cache_read", "search", "cache_store", "apply", "error"}

\* the step of the worker that handles a request taken with an empty query
EmptyRequestStep ==
  /\ worker.pc = "dispatch" /\ worker.query = <<>>
  /\ worker' # worker

\* C15: a request the worker takes while the query is empty ends with the
\* result list set to empty, without a call of the search engine, and the
\* cache never holds an entry for the empty query.
C15_EmptyQueryNoSearch ==
  /\ [](worker # <<>> =>
          /\ <<>> \notin DOMAIN results_cache
          /\ WorkerSearching => worker.query # <<>>)
  /\ [][EmptyRequestStep =>
          /\ state'.results = <<>>
          /\ worker' = WorkerIdle
          /\ hist'.calls = hist.calls
          /\ results_cache' = results_cache]_vars

\* after a search that found results, the query was emptied again and the
\* worker has handled the request: the results are gone, the cache holds
\* only the earlier query
C15_Witness ==
  /\ worker = WorkerIdle
  /\ state.query = <<>> /\ ~state.is_searching
  /\ Len(hist.strokes) = 2 /\ Len(hist.calls) = 1
  /\ state.results = <<>>
  /\ DOMAIN results_cache = { <<"a">> }
  /\ results_cache[<<"a">>] # <<>>

\* the step that handles an Up or a Down key
UpOrDownStep ==
  /\ ui.pc = "handle" /\ ui.key \in {"UP", "DOWN"}
  /\ ui'.pc = "handled"

\* C16: after an Up or Down key handled with a non-empty result list, the
\* highlighted index lies in [0, min(result_count, max_visible) - 1],
\* whatever the terminal height and whatever keys and worker updates came
\* before.
C16_HighlightInRange ==
  [][(UpOrDownStep /\ state.results # <<>>) =>
       /\ 0 <= state'.selected_index
       /\ state'.selected_index
            <= Min(Len(state'.results), MaxVisible(ui.rows)) - 1]_vars

\* the step that handles a Backspace with the cursor at position 0
BackspaceAtStartStep ==
  /\ ui.pc = "handle" /\ ui.key = "BACKSPACE"
  /\ state.cursor_pos = 0
  /\ ui' # ui

\* C17: after any keys the cursor is within the query,
\* 0 <= cursor_pos <= len(query), and a Backspace at position 0 leaves the
\* query and the cursor as they are and triggers no search.
C17_CursorWithinQuery ==
  /\ [](state # <<>> =>
          (0 <= state.cursor_pos /\ state.cursor_pos <= Len(state.query)))
  /\ [][BackspaceAtStartStep =>
          /\ state' = state
          /\ ui'.pc = "handled"
          /\ hist'.strokes = hist.strokes
          /\ results_cache' = results_cache]_vars

\* a character was typed, the cursor moved left of it, and a Backspace was
\* handled there: the query is whole and no search is pending for it
C17_Witness ==
  /\ ui # <<>> /\ ui.pc = "handled" /\ ui.key = "BACKSPACE"
  /\ state.cursor_pos = 0 /\ Len(state.query) = 1
  /\ Len(hist.strokes) = 1
  /\ ~state.is_searching

(***************************************************************************)
(* conversation_stats.py: analyze_multiple.  A message is reduced to its   *)
(* timestamp: absent, a string that is no ISO timestamp, or a date, an     *)
(* hour and whether the timestamp carries a UTC offset.                    *)
(***************************************************************************)
MaxConversations == 3
MaxMessages == 2

NoStamp == [is |-> "none"]
BadStamp == [is |-> "invalid"]
Time(day, hour, aware) == [is |-> "time", day |-> day, hour |-> hour, aware |-> aware]

StatStamps ==
  {NoStamp, BadStamp, Time(1, 0, TRUE), Time(2, 1, TRUE), Time(1, 1, FALSE)}

\* datetime.fromisoformat succeeds
Parses(timestamp) == timestamp.is = "time"

\* a < b on datetimes: TypeError between a naive and an aware one
SameAwareness(a, b) == a.aware = b.aware
Before(a, b) == a.day < b.day \/ (a.day = b.day /\ a.hour < b.hour)

\* analyze_conversation, the time analysis: start_time and end_time after
\* the messages; a comparison that raises TypeError skips the message
RECURSIVE TimeSpan(_, _, _)
TimeSpan(conversation, start_time, end_time) ==
  IF conversation = <<>> THEN [start_time |-> start_time, end_time |-> end_time]
  ELSE LET timestamp == Head(conversation)
           rest == Tail(conversation)
       IN IF ~Parses(timestamp) THEN TimeSpan(rest, start_time, end_time)
          ELSE IF start_time.is = "time" /\ ~SameAwareness(timestamp, start_time)
          THEN TimeSpan(rest, start_time, end_time)
          ELSE LET start == IF start_time.is = "none" \/ Before(timestamp, start_time)
                            THEN timestamp ELSE start_time
               IN IF end_time.is = "time" /\ ~SameAwareness(timestamp, end_time)
                  THEN TimeSpan(rest, start, end_time)
                  ELSE TimeSpan(rest, start,
                                IF end_time.is = "none" \/ Before(end_time, timestamp)
                                THEN timestamp ELSE end_time)

\* analyze_conversation: what analyze_multiple uses of the statistics
AnalyzeConversation(conversation, session_id) ==
  LET span == TimeSpan(conversation, NoStamp, NoStamp)
  IN [session_id |-> session_id, total_messages |-> Len(conversation),
      start_time |-> span.start_time, end_time |-> span.end_time]

\* max(items, key=...): an item replaces the best so far only when its key
\* is greater
RECURSIVE MaxByFrom(_, _, _)
MaxByFrom(items, field, best) ==
  IF items = <<>> THEN best
  ELSE MaxByFrom(Tail(items), field,
                 IF Head(items)[field] > best[field] THEN Head(items) ELSE best)

MaxBy(items, field) == MaxByFrom(Tail(items), field, Head(items))

\* min(items, key=...)
RECURSIVE MinByFrom(_, _, _)
MinByFrom(items, field, best) ==
  IF items = <<>> THEN best
  ELSE MinByFrom(Tail(items), field,
                 IF Head(items)[field] < best[field] THEN Head(items) ELSE best)

MinBy(items, field) == MinByFrom(Tail(items), field, Head(items))

\* counts[key] += 1 on a defaultdict(int): a new key goes last
Bump(counts, key) ==
  IF \E i \in DOMAIN counts : counts[i].key = key
  THEN [i \in DOMAIN counts |->
          IF counts[i].key = key THEN [counts[i] EXCEPT !.count = @ + 1]
          ELSE counts[i]]
  ELSE Append(counts, [key |-> key, count |-> 1])

\* the timestamps of all messages of all conversations, in order
RECURSIVE Flatten(_)
Flatten(conversations) ==
  IF conversations = <<>> THEN <<>>
  ELSE Head(conversations) \o Flatten(Tail(conversations))

\* the scan that fills daily_counts (field = "day") or hourly_counts
RECURSIVE CountBy(_, _, _)
CountBy(timestamps, field, counts) ==
  IF timestamps = <<>> THEN counts
  ELSE CountBy(Tail(timestamps), field,
               IF Parses(Head(timestamps))
               THEN Bump(counts, Head(timestamps)[field]) ELSE counts)

\* some two of the times cannot be compared: min or max raises TypeError
Incomparable(times) ==
  \E i, j \in DOMAIN times : ~SameAwareness(times[i], times[j])

StatsInit ==
  /\ fs = [pc |-> "parked"]
  /\ \E conversations \in SeqsUpTo(SeqsUpTo(StatStamps, MaxMessages), MaxConversations) :
       call = [pc |-> "call", op |-> "analyze_multiple",
               conversations |-> conversations, all_stats |-> <<>>,
               longest |-> None, shortest |-> None,
               daily_counts |-> <<>>, hourly_counts |-> <<>>,
               result |-> None, exception |-> "none"]

\* if not conversations: return self._empty_aggregate_stats()
StatsEmpty ==
  /\ call.pc = "call" /\ call.op = "analyze_multiple"
  /\ call.conversations = <<>>
  /\ call' = [call EXCEPT !.pc = "returned", !.result = [is |-> "empty"]]
  /\ UNCHANGED <<fs, NotCall>>

\* the loop over the conversations: analyze_conversation on the next one;
\* the session id of the i-th conversation is i
StatsAnalyze ==
  /\ call.pc = "call" /\ call.op = "analyze_multiple"
  /\ Len(call.all_stats) < Len(call.conversations)
  /\ LET i == Len(call.all_stats) + 1
     IN call' = [call EXCEPT !.all_stats =
                   Append(@, AnalyzeConversation(call.conversations[i], i))]
  /\ UNCHANGED <<fs, NotCall>>

\* longest = max(all_stats, ...); shortest = min(all_stats, ...)
StatsExtremes ==
  /\ call.pc = "call" /\ call.op = "analyze_multiple"
  /\ call.conversations # <<>>
  /\ Len(call.all_stats) = Len(call.conversations)
  /\ call' = [call EXCEPT !.pc = "date_range",
                          !.longest = MaxBy(call.all_stats, "total_messages"),
                          !.shortest = MinBy(call.all_stats, "total_messages")]
  /\ UNCHANGED <<fs, NotCall>>

\* date_range = (min(all_starts), max(all_ends)): TypeError when a naive
\* time meets an aware one
StatsDateRange ==
  /\ call.pc = "date_range"
  /\ LET started == SelectSeq(call.all_stats, LAMBDA s : s.start_time.is = "time")
         ended == SelectSeq(call.all_stats, LAMBDA s : s.end_time.is = "time")
         all_starts == [i \in DOMAIN started |-> started[i].start_time]
         all_ends == [i \in DOMAIN ended |-> ended[i].end_time]
     IN call' = IF Incomparable(all_starts) \/ Incomparable(all_ends)
                THEN [call EXCEPT !.pc = "raised", !.exception = "TypeError"]
                ELSE [call EXCEPT !.pc = "counts"]
  /\ UNCHANGED <<fs, NotCall>>

\* the scan of every message of every conversation
StatsCount ==
  /\ call.pc = "counts"
  /\ LET timestamps == Flatten(call.conversations)
     IN call' = [call EXCEPT !.pc = "most_active",
                             !.daily_counts = CountBy(timestamps, "day", <<>>),
                             !.hourly_counts = CountBy(timestamps, "hour", <<>>)]
  /\ UNCHANGED <<fs, NotCall>>

\* max(counts.items(), key=lambda x: x[1])[0] if counts else None
MostActive(counts) ==
  IF counts = <<>> THEN None ELSE [is |-> "key", key |-> MaxBy(counts, "count").key]

\* the most active periods, and the AggregateStats returned
StatsReturn ==
  /\ call.pc = "most_active"
  /\ call' = [call EXCEPT
       !.pc = "returned",
       !.result =
         [is |-> "stats",
          most_active_day |-> MostActive(call.daily_counts),
          most_active_hour |-> MostActive(call.hourly_counts),
          longest_conversation |->
            <<call.longest.session_id, call.longest.total_messages>>,
          shortest_conversation |->
            <<call.shortest.session_id, call.shortest.total_messages>>]]
  /\ UNCHANGED <<fs, NotCall>>

StatsNext ==
  \/ StatsEmpty \/ StatsAnalyze \/ StatsExtremes \/ StatsDateRange
  \/ StatsCount \/ StatsReturn

InitStats ==
  StatsInit /\ RTSParked /\ SmartParked /\ ExtractParked /\ BridgeParked
  /\ cli = [pc |-> "parked"]

SpecStats == InitStats /\ [][StatsNext]_vars

\* the earliest conversation, in input order, whose message count is the
\* greatest (sign = 1) or the least (sign = -1), with that count
EarliestExtreme(conversations, sign) ==
  LET i == CHOOSE i \in DOMAIN conversations :
             /\ \A j \in DOMAIN conversations :
                  sign * Len(conversations[j]) <= sign * Len(conversations[i])
             /\ \A j \in 1..(i - 1) : Len(conversations[j]) # Len(conversations[i])
  IN <<i, Len(conversations[i])>>

\* the key (day or hour) counted most often over the parseable timestamps,
\* the first met among those counted equally often; None without any
FirstMostCounted(conversations, field) ==
  LET timestamps == Flatten(conversations)
      parsed == {i \in DOMAIN timestamps : Parses(timestamps[i])}
      keys == {timestamps[i][field] : i \in parsed}
      count(k) == Cardinality({i \in parsed : timestamps[i][field] = k})
      first(k) == CHOOSE i \in parsed :
                    /\ timestamps[i][field] = k
                    /\ \A j \in parsed : timestamps[j][field] = k => i <= j
  IN IF keys = {} THEN None
     ELSE [is |-> "key",
           key |-> CHOOSE k \in keys :
                     \A other \in keys :
                       \/ count(other) < count(k)
                       \/ count(other) = count(k) /\ first(k) <= first(other)]

AnalysisOver ==
  /\ call.pc \in {"returned", "raised"} /\ call.op = "analyze_multiple"
  /\ call.conversations # <<>>

\* what the claim says of a result
TiesToTheFirst ==
  /\ call.result.longest_conversation = EarliestExtreme(call.conversations, 1)
  /\ call.result.shortest_conversation = EarliestExtreme(call.conversations, 0 - 1)
  /\ call.result.most_active_day = FirstMostCounted(call.conversations, "day")
  /\ call.result.most_active_hour = FirstMostCounted(call.conversations, "hour")

\* C18: for any non-empty list of conversations analyze_multiple reports as
\* longest (shortest) conversation the earliest one with the greatest
\* (least) message count, and as most active day and hour the first met
\* key with the greatest count.
C18_TiesToTheFirst ==
  AnalysisOver => (call.pc = "returned" /\ TiesToTheFirst)


(***************************************************************************)
(* detailed_export.py: save_detailed_markdown.  A text is known by what it *)
(* is the text of and by its length; what is written of it is a prefix.    *)
(***************************************************************************)

MAX_CONTENT_DISPLAY == 2000
MAX_PREVIEW_LENGTH == 500
MAX_STDERR_DISPLAY == 1000

MaxRendered == 2

Text(name, len) == [name |-> name, len |-> len]

\* text[:limit]
Slice(text, limit) ==
  [of |-> text, chars |-> IF text.len < limit THEN text.len ELSE limit]

\* json.dumps(inputs) of a dict of one one-letter key and a string of
\* value_len plain characters: {"k": "..."}; of the empty dict: {}
JsonDumps(inputs) ==
  Text("json.dumps(inputs)",
       IF inputs.is = "empty" THEN 2 ELSE inputs.value_len + 9)

\* json.dumps(inputs, indent=2): a line break and two blanks before the
\* key, a line break before the closing brace
JsonDumpsIndent(inputs) ==
  Text("json.dumps(inputs, indent=2)",
       IF inputs.is = "empty" THEN 2 ELSE inputs.value_len + 13)

NearLimit(limit) == {0, limit, limit + 1}

ToolCallMessage(tool_name, inputs) ==
  [type |-> "tool_calls", tool_name |-> tool_name, inputs |-> inputs]

ToolResultMessage(stdout, stderr, content) ==
  [type |-> "tool_result", stdout |-> stdout, stderr |-> stderr,
   content |-> content]

\* inputs of a tool that is none of Bash, Read, Write, Edit
OtherInputs ==
  {[is |-> "empty"]} \cup
  {[is |-> "dict", value_len |-> MAX_STDERR_DISPLAY - d] : d \in {14, 10, 9, 8}}

RenderedMessages ==
  {ToolCallMessage("Bash", [is |-> "command"])}
  \cup {ToolCallMessage("Write", [is |-> "file", content |-> n]) :
          n \in NearLimit(MAX_PREVIEW_LENGTH)}
  \cup {ToolCallMessage("Grep", inputs) : inputs \in OtherInputs}
  \cup {ToolResultMessage(o, e, c) :
          o \in NearLimit(MAX_CONTENT_DISPLAY),
          e \in NearLimit(MAX_STDERR_DISPLAY),
          c \in NearLimit(MAX_CONTENT_DISPLAY)}

\* a fenced block of the transcript: its heading, the text written in it
\* and whether TRUNCATION_INDICATOR follows the text
Fenced(label, text, marker) == [label |-> label, text |-> text, marker |-> marker]

RenderInit ==
  /\ fs = [pc |-> "parked"]
  /\ \E messages \in SeqsUpTo(RenderedMessages, MaxRendered),
        include_raw_json \in BOOLEAN :
       call = [pc |-> "call", op |-> "save_detailed_markdown",
               messages |-> messages, include_raw_json |-> include_raw_json,
               file |-> <<>>, result |-> None]

NextMessage == call.messages[Len(call.file) + 1]

Rendering(type) ==
  /\ call.pc = "call" /\ call.op = "save_detailed_markdown"
  /\ Len(call.file) < Len(call.messages)
  /\ NextMessage.type = type

\* what one message adds to the file is kept as one entry of call.file
Wrote(blocks) ==
  /\ call' = [call EXCEPT !.file = Append(@, blocks)]
  /\ UNCHANGED <<fs, NotCall>>

\* if tool["tool_name"] == "Bash": the command, whole
RenderBash ==
  /\ Rendering("tool_calls") /\ NextMessage.tool_name = "Bash"
  /\ Wrote(<<>>)

\* elif tool["tool_name"] in ["Read", "Write", "Edit"]: the preview of the
\* content of a Write
RenderWrite ==
  /\ Rendering("tool_calls") /\ NextMessage.tool_name = "Write"
  /\ LET content == Text("content", NextMessage.inputs.content)
     IN Wrote(IF content.len # 0
              THEN <<Fenced("Content", Slice(content, MAX_PREVIEW_LENGTH),
                            content.len > MAX_PREVIEW_LENGTH)>>
              ELSE <<>>)

\* the marker of the raw JSON is decided on json.dumps(inputs)
RawJsonMarked(inputs) == JsonDumps(inputs).len > MAX_STDERR_DISPLAY

\* elif include_raw_json: the inputs of any other tool, as indented JSON
RenderRawJson ==
  /\ Rendering("tool_calls") /\ NextMessage.tool_name \notin {"Bash", "Write"}
  /\ Wrote(IF call.include_raw_json
           THEN <<Fenced("Inputs",
                         Slice(JsonDumpsIndent(NextMessage.inputs), MAX_STDERR_DISPLAY),
                         RawJsonMarked(NextMessage.inputs))>>
           ELSE <<>>)

\* elif msg_type == "tool_result": stdout, stderr, and the content when
\* there is neither
RenderToolResult ==
  /\ Rendering("tool_result")
  /\ LET msg == NextMessage
         stdout == Text("stdout", msg.stdout)
         stderr == Text("stderr", msg.stderr)
         content == Text("content", msg.content)
         output == IF stdout.len # 0
                   THEN <<IF stdout.len > MAX_CONTENT_DISPLAY
                          THEN Fenced("Output", Slice(stdout, MAX_CONTENT_DISPLAY), TRUE)
                          ELSE Fenced("Output", Slice(stdout, stdout.len), FALSE)>>
                   ELSE <<>>
         errors == IF stderr.len # 0
                   THEN <<Fenced("Errors", Slice(stderr, MAX_STDERR_DISPLAY),
                                 stderr.len > MAX_STDERR_DISPLAY)>>
                   ELSE <<>>
         result == IF stdout.len = 0 /\ stderr.len = 0 /\ content.len # 0
                   THEN <<IF content.len > MAX_CONTENT_DISPLAY
                          THEN Fenced("Result", Slice(content, MAX_CONTENT_DISPLAY), TRUE)
                          ELSE Fenced("Result", Slice(content, content.len), FALSE)>>
                   ELSE <<>>
     IN Wrote(output \o errors \o result)

\* return output_path
RenderReturn ==
  /\ call.pc = "call" /\ call.op = "save_detailed_markdown"
  /\ Len(call.file) = Len(call.messages)
  /\ call' = [call EXCEPT !.pc = "returned", !.result = [is |-> "output_path"]]
  /\ UNCHANGED <<fs, NotCall>>

RenderNext ==
  \/ RenderBash \/ RenderWrite \/ RenderRawJson \/ RenderToolResult
  \/ RenderReturn

InitRender ==
  RenderInit /\ RTSParked /\ SmartParked /\ ExtractParked /\ BridgeParked
  /\ cli = [pc |-> "parked"]

SpecRender == InitRender /\ [][RenderNext]_vars

\* the limit of each length-limited block
LimitOf(label) ==
  CASE label \in {"Output", "Result"} -> 2000
    [] label \in {"Errors", "Inputs"} -> 1000
    [] label = "Content" -> 500

\* the fenced blocks of the file written so far
FencedBlocks ==
  IF call.pc \in {"call", "returned"} /\ call.op = "save_detailed_markdown"
  THEN UNION {{call.file[i][j] : j \in DOMAIN call.file[i]} : i \in DOMAIN call.file}
  ELSE {}

\* C19: in save_detailed_markdown every length-limited field (stdout at
\* 2000, stderr at 1000, result content at 2000, Write preview at 500, raw
\* JSON inputs at 1000) is rendered as its first limit characters, and the
\* truncation marker is written if and only if the text was actually cut.
C19_MarkerIffCut ==
  \A block \in FencedBlocks :
    /\ block.text.chars = Min(block.text.of.len, LimitOf(block.label))
    /\ block.marker <=> block.text.chars < block.text.of.len

(***************************************************************************)
(* The search lock.  Each `with self.search_lock` block of the source is   *)
(* one action of the model; every other action runs without the lock.      *)
(***************************************************************************)
\* the fields of the state that the lock is said to guard
Guarded(s) ==
  <<s.query, s.results, s.selected_index, s.is_searching, s.last_update,
    s.needs_redraw, s.last_drawn_query, s.last_drawn_results_count>>

\* the steps taken inside a `with self.search_lock` block
SearchLockSection ==
  \/ WorkerRequest \/ WorkerEmptyQuery \/ WorkerCacheRead \/ WorkerApply
  \/ WorkerError \/ TriggerSearch

\* C20: every read or write of the shared search state (query, results,
\* selected index, searching flag, last-update time, redraw markers) and
\* of the result cache, by either thread, is made while holding the search
\* lock: a step that changes any of them is a step of a lock section.
C20_SharedStateUnderLock ==
  [][(Guarded(state') # Guarded(state) \/ results_cache' # results_cache)
       => SearchLockSection]_vars

(***************************************************************************)
(* The search screen under typing alone: the keys that change the query,   *)
(* on a terminal of one height.  Four keys are needed for the worker to    *)
(* find in the cache a query that a later key evicts.                      *)
(***************************************************************************)
MaxTyped == 4

TypingKeys == Chars \cup {"BACKSPACE"}

\* keyboard.get_key returns a key that edits the query
TypeKey ==
  /\ ui.pc = "getkey"
  /\ hist.nkeys < MaxTyped
  /\ \E k \in TypingKeys :
       /\ k \in Chars => Len(state.query) < MaxQueryLen
       /\ ui' = [ui EXCEPT !.pc = "handle", !.key = k, !.key_time = now]
  /\ hist' = [hist EXCEPT !.nkeys = @ + 1]
  /\ UNCHANGED <<state, results_cache, stop_event, worker, now>>
  /\ UNCHANGED NotRTS

TypingNext ==
  \/ Tick
  \/ WorkerLoop \/ WorkerRequest \/ WorkerEmptyQuery \/ WorkerCacheCheck
  \/ WorkerCacheRead \/ WorkerSearch \/ WorkerCacheStore \/ WorkerApply
  \/ WorkerError \/ WorkerCleanup
  \/ RunStart \/ RedrawCheck \/ Draw \/ MarkDrawn
  \/ GetKeyTimeout \/ TypeKey \/ GetKeyInterrupt
  \/ HandleBackspace \/ HandlePrintable
  \/ TriggerSearch \/ AfterInput
  \/ Stop \/ Join

InitTyping == InitRTS /\ ui.rows = 15

SpecTyping == InitTyping /\ [][TypingNext]_vars

\* C21: under every interleaving of keystrokes and worker steps the worker
\* keeps running until the stop signal is set: neither an exception of the
\* search engine nor the eviction of a cache entry it found present ends
\* the worker thread.
C21_WorkerKeepsRunning == worker.pc # "dead"

\* run has left its loop after an accepted ENTER
SelectionMade ==
  /\ ui.pc \in {"stop", "join", "returned"}
  /\ hist.entered # 0

\* C22: when ENTER is accepted as a selection, run returns the file path of
\* the result that was highlighted when ENTER was handled; a replacement
\* of the result list by the worker between the test of handle_input and
\* the lookup of run causes neither an out-of-range access nor the return
\* of another result's path.
C22_ReturnsHighlighted ==
  SelectionMade => ui.retval = [kind |-> "path", path |-> hist.entered]

(***************************************************************************)
(* Scheduling.  Both threads keep running: the loop of run never waits     *)
(* longer than the 0.1 s timeout of get_key, the worker sleeps 0.05 s      *)
(* between requests, and time passes.  Nothing forces a key to arrive.     *)
(***************************************************************************)
WorkerStep ==
  \/ WorkerLoop \/ WorkerRequest \/ WorkerEmptyQuery \/ WorkerCacheCheck
  \/ WorkerCacheRead \/ WorkerSearch \/ WorkerCacheStore \/ WorkerApply
  \/ WorkerError \/ WorkerCleanup

ForegroundStep ==
  \/ RunStart \/ RedrawCheck \/ Draw \/ MarkDrawn \/ GetKeyTimeout
  \/ HandleBackspace \/ HandlePrintable \/ TriggerSearch \/ AfterInput
  \/ Stop \/ Join

FairTyping ==
  SpecTyping /\ WF_vars(WorkerStep) /\ WF_vars(ForegroundStep) /\ WF_vars(Tick)

RunOver == ui.pc \in {"stop", "join", "returned"}

\* the worker has stored a result list that is not on the screen and has
\* asked for a redraw
RedrawAsked == state.needs_redraw /\ state.results # ui.drawn /\ ~RunOver

\* C23: whenever the worker stores a new result list and marks the screen
\* as needing a redraw, the loop of run eventually draws that list, even
\* if no further key is pressed.
C23_RedrawNotLost ==
  RedrawAsked ~> (ui.drawn = state.results \/ RunOver)

\* the worker waits for a debounce window that ends after the last tick
\* of the model's clock
AwaitingClock ==
  /\ WorkerAlive
  /\ state.is_searching
  /\ ~DebounceElapsed(MaxTime, state.last_update)

\* the user has stopped typing with a query to search and run goes on
TypingStopped ==
  /\ state.query # <<>>
  /\ ~RunOver
  /\ ~AwaitingClock

\* the search for the query on the screen has been made and applied
Settled ==
  /\ ~state.is_searching
  /\ state.results = SearcherSearch(state.query)

\* C24: if the user stops typing with a non-empty final query and every
\* call of the search engine returns, then under fair scheduling the state
\* reaches and keeps: searching flag cleared and result list equal to the
\* results of exactly that final query.
C24_FinalQuerySettles ==
  [](worker.pc # "error") => <>[](TypingStopped => Settled)

\* the step of trigger_search after a key that changed the query
TriggerStep == ui.pc = "trigger" /\ ui'.pc = "handled"

\* the cache after the step holds exactly the entries of keys, unchanged
CacheBecomes(keys) ==
  /\ DOMAIN results_cache' = keys
  /\ \A k \in keys : results_cache'[k] = results_cache[k]

\* C25 as stated: when a keystroke changes the query, trigger_search evicts
\* exactly the entries whose key is not a prefix of the new query and
\* retains every entry whose key is a prefix of it.
C25_KeepsPrefixesOfQuery ==
  [][TriggerStep =>
       CacheBecomes({k \in DOMAIN results_cache : IsPrefix(k, state.query)})]_vars

\* C25: when a keystroke changes the query, trigger_search evicts exactly
\* the entries whose key does not start with the new query and retains
\* every entry whose key starts with it.
C25_KeepsExtensionsOfQuery ==
  [][TriggerStep =>
       CacheBecomes({k \in DOMAIN results_cache : IsPrefix(state.query, k)})]_vars

\* after a BACKSPACE from "ab" to "a" the entry of "ab" is still there
C25_Witness ==
  /\ ui.pc = "handled" /\ ui.key = "BACKSPACE"
  /\ state.query = <<"a">>
  /\ DOMAIN results_cache = {<<"a", "b">>}

\* C26: after any interleaving of keystrokes and worker steps, once
\* trigger_search for the latest keystroke has completed, every key held
\* in the result cache starts with the current query.
C26_CacheKeysExtendQuery ==
  ui.pc # "trigger" =>
    \A k \in DOMAIN results_cache : IsPrefix(state.query, k)

\* the step of the interactive flow that runs the batch extraction, after
\* the folder was picked
BatchStep == cli.pc = "show_sessions_menu" /\ cli'.pc = "returned"

\* C27: in the interactive flow, after the user has picked an output
\* folder, every file the batch extraction produces, for every export
\* format and for detailed mode, is written inside that folder.
C27_WrittenInChosenFolder ==
  [][BatchStep =>
       \A f \in fs'.files \ fs.files : f.path.dir = cli.folder]_vars

\* a batch over pairwise distinct valid indices has returned
DistinctBatchOver ==
  /\ call.op = "extract_multiple" /\ call.pc = "returned"
  /\ \A j, k \in DOMAIN call.indices :
       j # k => call.indices[j] # call.indices[k]
  /\ \A k \in DOMAIN call.indices :
       0 <= call.indices[k] /\ call.indices[k] < Len(call.sessions)

\* C28: in one batch extraction over pairwise distinct valid indices, two
\* different sessions are never written to the same output file, so the
\* number of files the batch produced equals the success count returned.
C28_OneFilePerSession ==
  DistinctBatchOver =>
    /\ \A j, k \in DOMAIN call.log :
         (j # k /\ call.log[j].path.is = "path" /\ call.log[k].path.is = "path")
           => call.log[j].path # call.log[k].path
    /\ Cardinality({f \in fs.files : f.written}) = call.result.success

(***************************************************************************)
(* detailed_export.py: one entry through _process_entry and then through   *)
(* the heading save_detailed_markdown writes for the message built.        *)
(***************************************************************************)
MaxItems == 3

\* the items of a list content of a user entry
UserItems ==
  { Block("text", JStr(<<"a">>)), Block("text", JStr(<<"b">>)),
    JStr(<<"s">>), Block("tool_result", JStr(<<"r">>)), Block("image", JAbsent) }

\* {"role": role, "content": content, "model": model}
ModelMessage(role, content, model) ==
  [is |-> "dict", role |-> role, content |-> content, model |-> model]

DetailedEntries ==
  {Entry("user", Message("user", JList(items)), FALSE) :
     items \in SeqsUpTo(UserItems, MaxItems)}
  \cup {Entry("assistant", message, FALSE) :
          message \in {JStr(X)}
            \cup {Message("assistant", content) :
                    content \in {JStr(X), JList(<<Block("tool_use", JAbsent)>>)}}
            \cup {ModelMessage("assistant", content, model) :
                    content \in {JStr(X), JList(<<Block("tool_use", JAbsent)>>)},
                    model \in {JStr(<<"m">>), JNull}}}

\* the "model" key of the message _process_assistant_entry builds: no key
\* when the entry's message is not a dict, message_data.get("model")
\* otherwise, None when the message has no model
ModelKey(entry) ==
  IF entry.type # "assistant" \/ entry.message.is # "dict" THEN JAbsent
  ELSE IF "model" \in DOMAIN entry.message THEN entry.message.model
  ELSE JNull

Claude == <<"C", "l", "a", "u", "d", "e">>

\* model = msg.get("model", "Claude"), as the f-string writes it
HeadingModel(model) == IF model.is = "absent" THEN Claude ELSE PyStr(model)

DetailedInit ==
  /\ fs = [pc |-> "parked"]
  /\ \E entry \in DetailedEntries :
       call = [pc |-> "call", op |-> "extract_detailed_conversation",
               entry |-> entry, messages |-> <<>>, model |-> JAbsent,
               headings |-> <<>>]

\* _process_entry on the entry: the message built, if any, and its "model"
DetailedProcessEntry ==
  /\ call.pc = "call" /\ call.op = "extract_detailed_conversation"
  /\ call' = [call EXCEPT !.pc = "extracted",
                          !.messages = ProcessEntry(call.entry, TRUE).msg,
                          !.model = ModelKey(call.entry)]
  /\ UNCHANGED <<fs, NotCall>>

\* the heading save_detailed_markdown writes for a message
Heading(msg, model) ==
  CASE msg.type = "user" -> <<"Human">>
    [] msg.type \in {"assistant", "tool_calls"} -> <<"Robot", HeadingModel(model)>>
    [] msg.type = "tool_result" -> <<"Tool Result">>
    [] OTHER -> <<"System">>

\* save_detailed_markdown on the messages extracted
DetailedRender ==
  /\ call.pc = "extracted" /\ call.op = "extract_detailed_conversation"
  /\ call' = [call EXCEPT !.pc = "returned",
                          !.headings = [i \in DOMAIN call.messages |->
                                          Heading(call.messages[i], call.model)]]
  /\ UNCHANGED <<fs, NotCall>>

DetailedNext == DetailedProcessEntry \/ DetailedRender

InitDetailed ==
  DetailedInit /\ RTSParked /\ SmartParked /\ ExtractParked /\ BridgeParked
  /\ cli = [pc |-> "parked"]

SpecDetailed == InitDetailed /\ [][DetailedNext]_vars

\* the items of a list that count as textual: text blocks and raw strings
Textual(items) ==
  {i \in DOMAIN items :
     items[i].is = "str" \/ (items[i].is = "dict" /\ items[i].type = "text")}

\* the text of the last textual item
LastText(items) ==
  LET i == CHOOSE i \in Textual(items) : \A j \in Textual(items) : j <= i
  IN IF items[i].is = "str" THEN items[i].str ELSE items[i].text.str

\* a user entry whose content is a list with textual items and no
\* tool_result block has been processed
UserListProcessed ==
  /\ call.op = "extract_detailed_conversation" /\ call.pc # "call"
  /\ call.entry.type = "user"
  /\ Textual(call.entry.message.content.items) # {}
  /\ \A i \in DOMAIN call.entry.message.content.items :
       ~(call.entry.message.content.items[i].is = "dict"
         /\ call.entry.message.content.items[i].type = "tool_result")

\* C29: in detailed extraction of a user entry whose content is a list
\* with no tool_result block, the content of the user message is the last
\* textual item of the list, text blocks and raw strings alike.
C29_LastTextualItemWins ==
  UserListProcessed =>
    /\ Len(call.messages) = 1
    /\ call.messages[1].type = "user"
    /\ call.messages[1].content = LastText(call.entry.message.content.items)

\* an assistant entry has been extracted and its messages rendered
AssistantRendered ==
  /\ call.op = "extract_detailed_conversation" /\ call.pc = "returned"
  /\ call.entry.type = "assistant"

\* the model name the entry carries, Claude when it carries none
NameOrClaude(entry) ==
  IF /\ entry.message.is = "dict"
     /\ "model" \in DOMAIN entry.message
     /\ entry.message.model.is = "str"
  THEN entry.message.model.str
  ELSE Claude

\* C30: the heading of every assistant or tool_calls message extracted
\* from an entry and rendered shows the model name of the entry when the
\* entry carries one, and the name Claude when it carries none.
C30_HeadingModelOrClaude ==
  AssistantRendered =>
    \A i \in DOMAIN call.messages :
      call.messages[i].type \in {"assistant", "tool_calls"} =>
        call.headings[i] = <<"Robot", NameOrClaude(call.entry)>>

====
